---------------------------- MODULE Spec2Model ----------------------------
(***************************************************************************)
(* A model of the Reson8 signaling server: the Socket.io event handlers    *)
(* (connection, voice, channel, message, admin), the Redis presence        *)
(* service, the mediasoup session bookkeeping and the permission helpers.  *)
(*                                                                         *)
(* One action is one run of one handler.  A handler is computed as a walk  *)
(* over a record `w` holding the whole server state ("world"); a call that *)
(* can reject (a Prisma query, a Redis command, a mediasoup request) is a  *)
(* numbered throw point, and the parameter `fail` of a handler names the   *)
(* throw point that rejects in this run (0: none).  The field `run` of the *)
(* world is the record of the run: its acknowledgements and the events it  *)
(* handed to the room broker, in order.  The state variables hold the      *)
(* server state alone; a property of a handler is stated about every run   *)
(* the handler can make from a reachable state.                            *)
(***************************************************************************)
EXTENDS Integers, Sequences, FiniteSets, TLC

\* ------------------------------------------------------------------ bounds
NumSockets == 2
MaxTransports == 2
MaxProducers == 1
MaxConsumers == 1
MaxChannels == 3
MaxMessages == 2
MaxPosition == 2
MaxTime == 2
MaxRows == 3

\* ----------------------------------------------------------------- domains
Sockets == 1..NumSockets
Users == {"u1", "u2"}
None == "none"
\* socket.data.userId of a socket that never sent USER_JOIN_SERVER is undefined
UserKeys == Users \cup {None}
ServerIds == {"s1"}
ChanPool == <<"c1", "c2", "c3", "c4", "c5">>
ChannelIds == {ChanPool[i] : i \in 1..MaxChannels}
\* the channels the voice and presence events name in their payloads
VoiceChannels == {"c1", "c2"}
Empty == ""

\* ------------------------------------------------------- permission flags
CONNECT == 1
SPEAK == 2
SEND_MESSAGES == 4
CREATE_CHANNEL == 8
MANAGE_CHANNELS == 16
MANAGE_ROLES == 32
KICK_USER == 64
BAN_USER == 128
ADMIN == 256

Flags == {CONNECT, SPEAK, SEND_MESSAGES, CREATE_CHANNEL, MANAGE_CHANNELS,
          MANAGE_ROLES, KICK_USER, BAN_USER, ADMIN}

\* a & b and a | b on the non-negative integers (BigInt has no width)
RECURSIVE BitAnd(_, _)
BitAnd(a, b) ==
    IF a = 0 \/ b = 0 THEN 0
    ELSE (a % 2) * (b % 2) + 2 * BitAnd(a \div 2, b \div 2)

RECURSIVE BitOr(_, _)
BitOr(a, b) ==
    IF a = 0 THEN b
    ELSE IF b = 0 THEN a
    ELSE (IF a % 2 = 1 \/ b % 2 = 1 THEN 1 ELSE 0) + 2 * BitOr(a \div 2, b \div 2)

\* the check without the ADMIN short-circuit
hasPermissionNoAdmin(userPerms, flag) == BitAnd(userPerms, flag) = flag

hasPermission(userPerms, flag) ==
    IF BitAnd(userPerms, ADMIN) = ADMIN THEN TRUE
    ELSE BitAnd(userPerms, flag) = flag

\* the roles of prisma/seed.ts
Roles == {"role-default", "role-admin"}
RoleDefaultPerms == 7
RoleAdminPerms == 511
RolePermissions(r) ==
    IF r = "role-default" THEN RoleDefaultPerms ELSE RoleAdminPerms
RoleServer(r) == "s1"
\* process.env.ADMIN_INSTANCE_ID
AdminInstanceId == "u1"

VARIABLES
    conn,        \* socket -> whether it is connected
    sdata,       \* socket.data: userId, serverId, currentChannelId
    rooms,       \* socket -> the Socket.io rooms it is in
    userRows,    \* prisma.user: the ids of the rows
    userRoles,   \* prisma.userRole: <<userId, roleId>>
    chanRows,    \* prisma.channel: id -> row or NoRow
    msgRows,     \* prisma.message: the rows, in creation order
    clock,       \* the time of the store, in milliseconds
    presServer,  \* presence:server:{id}  -> set of user ids
    presChannel, \* presence:channel:{id} -> set of user ids
    presUser,    \* presence:user:{id}    -> hash or NoHash
    routers,     \* MediasoupService.routers: the channels with a router
    sessMaps,    \* MediasoupService.sessions: the channels with a session map
    vsess,       \* channel -> user -> UserVoiceSession or NoSess
    transports,  \* the open transports: [id, chan, connected]
    producers,   \* the open producers: [id, transport, chan, user]
    consumers,   \* the open consumers: [id, producerId, transport, sock, ...]
    tasks,       \* socket -> its handlers suspended at an await, as they began
    probe,       \* the arguments of a call of a pure helper
    result       \* what the call returned: {} before it returns

vars == <<conn, sdata, rooms, userRows, userRoles, chanRows, msgRows, clock,
          presServer, presChannel, presUser, routers, sessMaps, vsess,
          transports, producers, consumers, tasks, probe, result>>

NoRun == [sock |-> 0, evt |-> "none", acks |-> <<>>, escaped |-> FALSE,
          failed |-> FALSE, perm |-> "none", trace |-> <<>>]

World ==
    [conn |-> conn, sdata |-> sdata, rooms |-> rooms, userRows |-> userRows,
     userRoles |-> userRoles, chanRows |-> chanRows,
     msgRows |-> msgRows, clock |-> clock, presServer |-> presServer, presChannel |-> presChannel,
     presUser |-> presUser, routers |-> routers, sessMaps |-> sessMaps,
     vsess |-> vsess, transports |-> transports, producers |-> producers,
     consumers |-> consumers, run |-> NoRun]

\* what a handler did to the server, written back
CommitServer(w) ==
    /\ conn' = w.conn /\ sdata' = w.sdata /\ rooms' = w.rooms
    /\ userRows' = w.userRows /\ userRoles' = w.userRoles
    /\ chanRows' = w.chanRows /\ msgRows' = w.msgRows /\ clock' = w.clock
    /\ presServer' = w.presServer /\ presChannel' = w.presChannel
    /\ presUser' = w.presUser
    /\ routers' = w.routers /\ sessMaps' = w.sessMaps /\ vsess' = w.vsess
    /\ transports' = w.transports /\ producers' = w.producers
    /\ consumers' = w.consumers

\* a handler that ran from its first line to its last without a break
Commit(w) == CommitServer(w) /\ UNCHANGED <<tasks, probe, result>>

\* ------------------------------------------------------------ null values
NoRow == [serverId |-> None, name |-> None, parentId |-> None, position |-> -1]
NoHash == [serverId |-> None, channelId |-> None]
NoSess == [sendTransport |-> -1, recvTransport |-> -1, producer |-> -1, consumers |-> {}]
NewSess == [sendTransport |-> 0, recvTransport |-> 0, producer |-> 0, consumers |-> {}]
NoData == [userId |-> None, serverId |-> None, currentChannelId |-> None]

ServerRoom(id) == <<"server", id>>
ChannelRoom(id) == <<"channel", id>>

\* ------------------------------------------------- what a handler run did
\* One observable effect: an event handed to the room broker, or a presence
\* update, in the order the handler made them.
Eff(op, to, room, user, pid, occ) ==
    [op |-> op, to |-> to, room |-> room, user |-> user, pid |-> pid, occ |-> occ]

Begin(w, s, evt) ==
    [w EXCEPT !.run = [NoRun EXCEPT !.sock = s, !.evt = evt]]

\* ack({ success, error, ... }): `data` is what a successful reply carries
AckWith(w, success, error, data) ==
    [w EXCEPT !.run.acks = Append(@, [success |-> success, error |-> error,
                                      data |-> data])]

Ack(w, success) == AckWith(w, success, None, {})

Note(w, e) == [w EXCEPT !.run.trace = Append(@, e)]

\* the sockets a broadcast reaches: the members of the room
RoomMembers(w, room) == {t \in Sockets : room \in w.rooms[t]}

\* the broker delivers `op` to the sockets `to`
Deliver(w, op, to, room, user, pid, occ) ==
    Note(w, Eff(op, to, room, user, pid, occ))

\* io.to(room).emit(op, ...)
IoToEmit(w, room, op, user, pid, occ) ==
    Deliver(w, op, RoomMembers(w, room), room, user, pid, occ)

\* the sender is not held back from its own broadcast
SocketToEmitAll(w, s, room, op, user, pid, occ) ==
    Deliver(w, op, RoomMembers(w, room), room, user, pid, occ)

\* socket.to(room).emit(op, ...): every member of the room but the socket
SocketToEmit(w, s, room, op, user, pid, occ) ==
    Deliver(w, op, RoomMembers(w, room) \ {s}, room, user, pid, occ)

\* socket.emit(op, ...): the socket alone, while it is connected
SocketEmit(w, s, op, user, pid, occ) ==
    Deliver(w, op, IF w.conn[s] THEN {s} ELSE {}, <<"socket", None>>,
            user, pid, occ)


\* mediasoup names its objects with fresh UUIDs; the model names a new object
\* with the least number that names no open object of its kind
FreshId(used) == CHOOSE i \in 1..(Cardinality(used) + 1) : i \notin used

Throw(w) == [w EXCEPT !.run.failed = TRUE]
Live(w) == ~w.run.failed

Truthy(x) == x # None /\ x # Empty

\* ------------------------------------------------------- PresenceService
\* joinServer: SADD presence:server:{s}, HSET presence:user:{u}, EXPIRE
PresenceJoinServer(w, userId, serverId) ==
    [w EXCEPT !.presServer[serverId] = @ \cup {userId},
              !.presUser[userId] = [serverId |-> serverId, channelId |-> Empty]]

\* a leaveServer that leaves the channel set alone
PresenceLeaveServerOnly(w, userId, serverId) ==
    [w EXCEPT !.presServer[serverId] = @ \ {userId},
              !.presUser[userId] = NoHash]

\* what `await this.redis.hget(userKey, "channelId")` reads
HgetChannelId(w, userId) == w.presUser[userId].channelId

\* the pipeline of leaveServer, with the channelId its HGET read:
\* SREM the channel if any; SREM the server; DEL
PresenceLeaveServerExec(w, userId, serverId, channelId) ==
    LET w1 == IF Truthy(channelId)
              THEN [w EXCEPT !.presChannel[channelId] = @ \ {userId}]
              ELSE w
    IN  [w1 EXCEPT !.presServer[serverId] = @ \ {userId},
                   !.presUser[userId] = NoHash]

\* leaveServer with nothing between its HGET and its pipeline
PresenceLeaveServer(w, userId, serverId) ==
    PresenceLeaveServerExec(w, userId, serverId, HgetChannelId(w, userId))

\* the pipeline of joinChannel, with the channelId its HGET read:
\* SREM the previous channel if any; SADD; HSET
PresenceJoinChannelExec(w, userId, channelId, prevChannelId) ==
    LET w1 == IF Truthy(prevChannelId)
              THEN [w EXCEPT !.presChannel[prevChannelId] = @ \ {userId}]
              ELSE w
    IN  [w1 EXCEPT !.presChannel[channelId] = @ \cup {userId},
                   !.presUser[userId].channelId = channelId]

\* joinChannel with nothing between its HGET and its pipeline
PresenceJoinChannel(w, userId, channelId) ==
    PresenceJoinChannelExec(w, userId, channelId, HgetChannelId(w, userId))

\* leaveChannel: SREM presence:channel:{c}; HSET channelId ""
PresenceLeaveChannel(w, userId, channelId) ==
    [w EXCEPT !.presChannel[channelId] = @ \ {userId},
              !.presUser[userId].channelId = Empty]

getChannelOccupants(w, channelId) == w.presChannel[channelId]

\* ------------------------------------------------------ MediasoupService
getSession(w, channelId, userId) ==
    IF channelId \in w.sessMaps THEN w.vsess[channelId][userId] ELSE NoSess

IsSess(x) == x # NoSess

EmptyMap == [u \in UserKeys |-> NoSess]

\* getOrCreateRouter, after worker.createRouter resolved
getOrCreateRouter(w, channelId) ==
    IF channelId \in w.routers THEN w
    ELSE [w EXCEPT !.routers = @ \cup {channelId},
                   !.sessMaps = @ \cup {channelId},
                   !.vsess[channelId] = EmptyMap]

getOrCreateSession(w, channelId, userId) ==
    LET w1 == IF channelId \in w.sessMaps THEN w
              ELSE [w EXCEPT !.sessMaps = @ \cup {channelId},
                             !.vsess[channelId] = EmptyMap]
    IN  IF IsSess(w1.vsess[channelId][userId]) THEN w1
        ELSE [w1 EXCEPT !.vsess[channelId][userId] = NewSess]

getExistingProducers(w, channelId, excludeUserId) ==
    IF channelId \notin w.sessMaps THEN {}
    ELSE {<<u, w.vsess[channelId][u].producer>> :
            u \in {x \in UserKeys : /\ x # excludeUserId
                                    /\ IsSess(w.vsess[channelId][x])
                                    /\ w.vsess[channelId][x].producer # 0}}

\* A consumer whose producer closed: the "producerclose" callback the CONSUME
\* handler registered deletes the consumer from its session and emits
\* PRODUCER_CLOSED to the socket that sent CONSUME.
ProducerCloseCallback(w, c) ==
    LET w1 == [w EXCEPT !.consumers = @ \ {c},
                        !.vsess[c.chan][c.user].consumers = @ \ {c.id}]
    IN  Deliver(w1, "PRODUCER_CLOSED", IF w.conn[c.sock] THEN {c.sock} ELSE {},
                <<"socket", "producerclose">>, Empty, c.producerId, {})

RECURSIVE FireProducerClose(_, _)
FireProducerClose(w, cs) ==
    IF cs = {} THEN w
    ELSE LET c == CHOOSE x \in cs : \A y \in cs : x.id <= y.id
         IN  FireProducerClose(ProducerCloseCallback(w, c), cs \ {c})

\* producer.close(): mediasoup closes every consumer of the producer and
\* emits "producerclose" on it
ProducerClose(w, pid) ==
    IF \A p \in w.producers : p.id # pid THEN w
    ELSE FireProducerClose([w EXCEPT !.producers = {p \in @ : p.id # pid}],
                           {c \in w.consumers : c.producerId = pid})

RECURSIVE CloseProducersOf(_, _)
CloseProducersOf(w, ps) ==
    IF ps = {} THEN w
    ELSE LET p == CHOOSE x \in ps : \A y \in ps : x.id <= y.id
             \* producer.on("transportclose"): session.producer = null
             w1 == IF IsSess(getSession(w, p.chan, p.user))
                   THEN [w EXCEPT !.vsess[p.chan][p.user].producer = 0]
                   ELSE w
         IN  CloseProducersOf(ProducerClose(w1, p.id), ps \ {p})

\* transport.close(): its producers and consumers close with "transportclose"
TransportClose(w, tid) ==
    IF \A t \in w.transports : t.id # tid THEN w
    ELSE LET w1 == [w EXCEPT !.transports = {t \in @ : t.id # tid}]
             w2 == CloseProducersOf(w1, {p \in w1.producers : p.transport = tid})
             mine == {c \in w2.consumers : c.transport = tid}
         IN  [w2 EXCEPT
                !.consumers = @ \ mine,
                \* consumer.on("transportclose"): session.consumers.delete
                !.vsess = [ch \in VoiceChannels |-> [u \in UserKeys |->
                    IF IsSess(@[ch][u])
                    THEN [@[ch][u] EXCEPT !.consumers =
                            @ \ {c.id : c \in {x \in mine : x.chan = ch /\ x.user = u}}]
                    ELSE @[ch][u]]]]

RECURSIVE CloseTransports(_, _)
CloseTransports(w, ts) ==
    IF ts = {} THEN w
    ELSE LET t == CHOOSE x \in ts : \A y \in ts : x <= y
         IN  CloseTransports(TransportClose(w, t), ts \ {t})

\* removeRouter: router.close() closes every transport of the router
removeRouter(w, channelId) ==
    IF channelId \notin w.routers THEN w
    ELSE LET w1 == CloseTransports(w, {t.id : t \in {x \in w.transports : x.chan = channelId}})
         IN  [w1 EXCEPT !.routers = @ \ {channelId},
                        !.sessMaps = @ \ {channelId},
                        !.vsess[channelId] = EmptyMap]

cleanupUserSession(w, channelId, userId) ==
    LET session == getSession(w, channelId, userId)
    IN  IF ~IsSess(session) THEN w
        ELSE
        LET \* consumer.close() for each consumer, then consumers.clear()
            w1 == [w EXCEPT !.consumers = {c \in @ : c.id \notin session.consumers},
                            !.vsess[channelId][userId].consumers = {}]
            w2 == IF session.producer # 0
                  THEN [ProducerClose(w1, session.producer)
                            EXCEPT !.vsess[channelId][userId].producer = 0]
                  ELSE w1
            w3 == IF session.sendTransport # 0
                  THEN [TransportClose(w2, session.sendTransport)
                            EXCEPT !.vsess[channelId][userId].sendTransport = 0]
                  ELSE w2
            w4 == IF session.recvTransport # 0
                  THEN [TransportClose(w3, session.recvTransport)
                            EXCEPT !.vsess[channelId][userId].recvTransport = 0]
                  ELSE w3
            w5 == [w4 EXCEPT !.vsess[channelId][userId] = NoSess]
        IN  IF \A u \in UserKeys : ~IsSess(w5.vsess[channelId][u])
            THEN removeRouter(w5, channelId)
            ELSE w5

\* ------------------------------------------------------------ connection
\* io.on("connection"): a new socket, with empty socket.data
Connect(s) ==
    /\ ~conn[s]
    /\ Commit([World EXCEPT !.conn[s] = TRUE, !.sdata[s] = NoData])

\* the catch block of a handler that acknowledges
CatchAck(w) == IF Live(w) THEN w ELSE Ack(w, FALSE)

\* ------------------------------------------------------------ channel tree
ChannelsOf(w, serverId) ==
    {c \in ChannelIds : w.chanRows[c] # NoRow /\ w.chanRows[c].serverId = serverId}

\* the place of an id in the pool of ids
PoolIndex(c) == CHOOSE i \in 1..Len(ChanPool) : ChanPool[i] = c

\* the row of a channel as the handlers hand it to buildChannelTree
IChannel(w, c) ==
    [id |-> c, parentId |-> w.chanRows[c].parentId,
     position |-> w.chanRows[c].position]

\* channel.findMany({where: {serverId}, orderBy: {position: "asc"}}); rows of
\* equal position come in the order of their ids
RECURSIVE OrderByPosition(_, _)
OrderByPosition(w, S) ==
    IF S = {} THEN <<>>
    ELSE LET m == CHOOSE x \in S : \A y \in S \ {x} :
                    \/ w.chanRows[x].position < w.chanRows[y].position
                    \/ /\ w.chanRows[x].position = w.chanRows[y].position
                       /\ PoolIndex(x) < PoolIndex(y)
         IN  <<IChannel(w, m)>> \o OrderByPosition(w, S \ {m})

findManyChannels(w, serverId) == OrderByPosition(w, ChannelsOf(w, serverId))

\* Array.prototype.sort with sortByPosition: a stable sort by position
RECURSIVE sortByPosition(_)
sortByPosition(nodes) ==
    IF nodes = <<>> THEN <<>>
    ELSE LET n == Len(nodes)
             front == sortByPosition(SubSeq(nodes, 1, n - 1))
             k == Cardinality({i \in DOMAIN front :
                                 front[i].position <= nodes[n].position})
         IN  SubSeq(front, 1, k) \o <<nodes[n]>> \o SubSeq(front, k + 1, n - 1)

\* the node buildChannelTree makes of a row: the row, no occupants; the
\* children of the node are kept in `children` of the tree
TreeNodeOf(ch) ==
    [id |-> ch.id, parentId |-> ch.parentId, position |-> ch.position,
     occupants |-> <<>>]

NodesOf(channels) == [i \in DOMAIN channels |-> TreeNodeOf(channels[i])]

\* a tree without nesting
buildChannelTreeFlat(channels) ==
    [roots |-> sortByPosition(NodesOf(channels)),
     children |-> [c \in {channels[i].id : i \in DOMAIN channels} |-> <<>>]]

\* a tree that drops the rows whose parent is not among the rows
buildChannelTreeNoOrphans(channels) ==
    [roots |-> sortByPosition(NodesOf(SelectSeq(channels,
                                 LAMBDA ch : ch.parentId = None))),
     children |-> [c \in {channels[i].id : i \in DOMAIN channels} |->
         sortByPosition(NodesOf(SelectSeq(channels, LAMBDA ch : ch.parentId = c)))]]

\* buildChannelTree: the root nodes and, for every node, its children; the
\* nested nodes of the source are the entries of `children`
buildChannelTree(channels) ==
    LET ids == {channels[i].id : i \in DOMAIN channels}
        IsRoot(ch) == ch.parentId = None \/ ch.parentId \notin ids
    IN  [roots |-> sortByPosition(NodesOf(SelectSeq(channels, IsRoot))),
         children |-> [c \in ids |->
             sortByPosition(NodesOf(SelectSeq(channels,
                                       LAMBDA ch : ch.parentId = c)))]]

\* USER_JOIN_SERVER
\* throw points: 1 user.upsert, 2 userRole.upsert (role-default),
\* 3 userRole.upsert (role-admin), 4 presence.joinServer, 5 channel.findMany
JoinServerRun(w0, s, instanceId, serverId, fail) ==
    LET w1 == [Begin(w0, s, "USER_JOIN_SERVER") EXCEPT
                 !.sdata[s] = [userId |-> instanceId, serverId |-> serverId,
                               currentChannelId |-> None]]
        w2 == IF fail = 1 THEN Throw(w1)
              ELSE [w1 EXCEPT !.userRows = @ \cup {instanceId}]
        w3 == IF ~Live(w2) THEN w2 ELSE IF fail = 2 THEN Throw(w2)
              ELSE [w2 EXCEPT !.userRoles = @ \cup {<<instanceId, "role-default">>}]
        w4 == IF ~Live(w3) \/ instanceId # AdminInstanceId THEN w3
              ELSE IF fail = 3 THEN Throw(w3)
              ELSE [w3 EXCEPT !.userRoles = @ \cup {<<instanceId, "role-admin">>}]
        w5 == IF ~Live(w4) THEN w4
              ELSE [w4 EXCEPT !.rooms[s] = @ \cup {ServerRoom(serverId)}]
        w6 == IF ~Live(w5) THEN w5 ELSE IF fail = 4 THEN Throw(w5)
              ELSE PresenceJoinServer(w5, instanceId, serverId)
        w7 == IF ~Live(w6) THEN w6
              ELSE SocketToEmit(w6, s, ServerRoom(serverId), "USER_JOINED",
                                instanceId, 0, {})
        w8 == IF ~Live(w7) THEN w7 ELSE IF fail = 5 THEN Throw(w7)
              ELSE SocketEmit(w7, s, "CHANNEL_TREE_UPDATE", serverId, 0,
                              {buildChannelTree(findManyChannels(w7, serverId))})
        w9 == IF ~Live(w8) THEN w8 ELSE Ack(w8, TRUE)
    IN  CatchAck(w9)

JoinServer(s, U, F) ==
    /\ conn[s]
    /\ \E instanceId \in U, serverId \in ServerIds, fail \in F :
         /\ fail = 3 => instanceId = AdminInstanceId
         /\ Commit(JoinServerRun(World, s, instanceId, serverId, fail))

\* USER_LEAVE_SERVER; throw point: 1 presence.leaveServer
LeaveServerRun(w0, s, serverId, fail) ==
    LET userId == w0.sdata[s].userId
        w1 == Begin(w0, s, "USER_LEAVE_SERVER")
        w2 == IF fail = 1 THEN Throw(w1)
              ELSE PresenceLeaveServer(w1, userId, serverId)
        w3 == IF ~Live(w2) THEN w2
              ELSE [w2 EXCEPT !.rooms[s] = @ \ {ServerRoom(serverId)}]
    IN  IF ~Live(w3) THEN w3
        ELSE SocketToEmit(w3, s, ServerRoom(serverId), "USER_LEFT", userId, 0, {})

LeaveServer(s, F) ==
    /\ conn[s]
    /\ \E serverId \in ServerIds, fail \in F :
         Commit(LeaveServerRun(World, s, serverId, fail))

\* USER_JOIN_CHANNEL
\* throw points: 1 presence.joinChannel, 2 getChannelOccupants / getUserPresence
JoinChannelRun(w0, s, channelId, fail) ==
    LET userId == w0.sdata[s].userId
        prev == w0.sdata[s].currentChannelId
        w1 == Begin(w0, s, "USER_JOIN_CHANNEL")
        w2 == IF prev # None THEN [w1 EXCEPT !.rooms[s] = @ \ {ChannelRoom(prev)}]
              ELSE w1
        w3 == [w2 EXCEPT !.sdata[s].currentChannelId = channelId,
                         !.rooms[s] = @ \cup {ChannelRoom(channelId)}]
        w4 == IF fail = 1 THEN Throw(w3)
              ELSE Note(PresenceJoinChannel(w3, userId, channelId),
                        Eff("presence.joinChannel", {}, ChannelRoom(channelId),
                            userId, 0, {}))
        w5 == IF ~Live(w4) THEN w4 ELSE IF fail = 2 THEN Throw(w4)
              ELSE IoToEmit(w4, ServerRoom(w4.sdata[s].serverId), "PRESENCE_UPDATE",
                            channelId, 0, getChannelOccupants(w4, channelId))
        w6 == IF ~Live(w5) THEN w5 ELSE Ack(w5, TRUE)
        existingProducers == getExistingProducers(w6, channelId, userId)
        w7 == IF ~Live(w6) \/ existingProducers = {} THEN w6
              ELSE SocketEmit(w6, s, "EXISTING_PRODUCERS", channelId, 0,
                              existingProducers)
    IN  CatchAck(w7)

JoinChannel(s, C, F) ==
    /\ conn[s]
    /\ \E channelId \in C, fail \in F :
         Commit(JoinChannelRun(World, s, channelId, fail))

\* the PRODUCER_CLOSED broadcast and session cleanup that USER_LEAVE_CHANNEL
\* and disconnect share
CloseVoice(w, s, channelId, userId) ==
    LET producerId == getSession(w, channelId, userId).producer
        w1 == IF IsSess(getSession(w, channelId, userId)) /\ producerId # 0
              THEN SocketToEmit(w, s, ChannelRoom(channelId), "PRODUCER_CLOSED",
                                userId, producerId, {})
              ELSE w
    IN  cleanupUserSession(w1, channelId, userId)

\* USER_LEAVE_CHANNEL
\* throw points: 1 presence.leaveChannel, 2 getChannelOccupants / getUserPresence
LeaveChannelRun(w0, s, channelId, fail) ==
    LET userId == w0.sdata[s].userId
        w1 == [Begin(w0, s, "USER_LEAVE_CHANNEL") EXCEPT
                 !.rooms[s] = @ \ {ChannelRoom(channelId)}]
        w2 == IF fail = 1 THEN Throw(w1)
              ELSE Note(PresenceLeaveChannel(w1, userId, channelId),
                        Eff("presence.leaveChannel", {}, ChannelRoom(channelId),
                            userId, 0, {}))
        w3 == IF ~Live(w2) THEN w2 ELSE CloseVoice(w2, s, channelId, userId)
        w4 == IF ~Live(w3) THEN w3
              ELSE [w3 EXCEPT !.sdata[s].currentChannelId = None]
    IN  IF ~Live(w4) THEN w4 ELSE IF fail = 2 THEN Throw(w4)
        ELSE IoToEmit(w4, ServerRoom(w4.sdata[s].serverId), "PRESENCE_UPDATE",
                      channelId, 0, getChannelOccupants(w4, channelId))

LeaveChannel(s, C, F) ==
    /\ conn[s]
    /\ \E channelId \in C, fail \in F :
         Commit(LeaveChannelRun(World, s, channelId, fail))

\* disconnect, lines 295-328: the `if (currentChannelId)` block
\* throw points: 1 presence.leaveChannel, 2 getChannelOccupants / getUserPresence
DisconnectChannel(w, s, fail) ==
    LET d == w.sdata[s]
        w1 == CloseVoice(w, s, d.currentChannelId, d.userId)
        w2 == IF fail = 1 THEN Throw(w1)
              ELSE Note(PresenceLeaveChannel(w1, d.userId, d.currentChannelId),
                        Eff("presence.leaveChannel", {},
                            ChannelRoom(d.currentChannelId), d.userId, 0, {}))
    IN  IF ~Live(w) \/ d.currentChannelId = None THEN w
        ELSE IF ~Live(w2) THEN w2 ELSE IF fail = 2 THEN Throw(w2)
        ELSE IoToEmit(w2, ServerRoom(d.serverId), "PRESENCE_UPDATE",
                      d.currentChannelId, 0,
                      getChannelOccupants(w2, d.currentChannelId))

\* disconnect, lines 330-336; throw point: 3 presence.leaveServer
DisconnectServer(w, s, fail) ==
    LET d == w.sdata[s]
        w1 == IF fail = 3 THEN Throw(w)
              ELSE Note(PresenceLeaveServer(w, d.userId, d.serverId),
                        Eff("presence.leaveServer", {}, ServerRoom(d.serverId),
                            d.userId, 0, {}))
    IN  IF ~Live(w) THEN w
        ELSE IF ~Live(w1) THEN w1
        ELSE IoToEmit(w1, ServerRoom(d.serverId), "USER_LEFT", d.userId, 0, {})

\* the server cleanup before the channel cleanup
DisconnectStepsSwapped(w, s, fail) ==
    DisconnectChannel(DisconnectServer(w, s, fail), s, fail)

DisconnectSteps(w, s, fail) ==
    DisconnectServer(DisconnectChannel(w, s, fail), s, fail)

\* Socket.io takes the socket out of every room before it emits "disconnect"
DisconnectRun(w0, s, fail) ==
    LET w1 == [Begin(w0, s, "disconnect") EXCEPT !.conn[s] = FALSE,
                                                 !.rooms[s] = {}]
    IN  IF w1.sdata[s].serverId = None THEN w1
        ELSE DisconnectSteps(w1, s, fail)

\* once the handler returned nothing refers to the socket: its data is dropped
Dropped(w, s) == [w EXCEPT !.sdata[s] = NoData]

Disconnect(s, F) ==
    /\ conn[s]
    /\ \E fail \in F :
         /\ fail \in 1..2 => sdata[s].currentChannelId # None
         /\ fail # 0 => sdata[s].serverId # None
         /\ Commit(Dropped(DisconnectRun(World, s, fail), s))

\* ------------------------------------------------------------------ voice
\* GET_ROUTER_CAPABILITIES; throw point: 1 worker.createRouter
GetRouterCapabilitiesRun(w0, s, channelId, fail) ==
    LET w1 == Begin(w0, s, "GET_ROUTER_CAPABILITIES")
        w2 == IF fail = 1 THEN Throw(w1) ELSE getOrCreateRouter(w1, channelId)
        w3 == IF ~Live(w2) THEN w2 ELSE Ack(w2, TRUE)
    IN  CatchAck(w3)

GetRouterCapabilities(s, C, F) ==
    /\ conn[s]
    /\ \E channelId \in C, fail \in F :
         /\ fail = 1 => channelId \notin routers
         /\ Commit(GetRouterCapabilitiesRun(World, s, channelId, fail))

\* router.createWebRtcTransport: the transport waits for the DTLS parameters
NewTransport(id, channelId) == [id |-> id, chan |-> channelId, connected |-> FALSE]

\* CREATE_WEBRTC_TRANSPORT
\* throw points: 1 worker.createRouter, 2 router.createWebRtcTransport
CreateWebRtcTransportRun(w0, s, channelId, direction, fail) ==
    LET userId == w0.sdata[s].userId
        w1 == Begin(w0, s, "CREATE_WEBRTC_TRANSPORT")
        w2 == IF fail = 1 THEN Throw(w1) ELSE getOrCreateRouter(w1, channelId)
        id == FreshId({t.id : t \in w0.transports})
        w3 == IF ~Live(w2) THEN w2 ELSE IF fail = 2 THEN Throw(w2)
              ELSE [w2 EXCEPT !.transports = @ \cup {NewTransport(id, channelId)}]
        w4 == IF ~Live(w3) THEN w3 ELSE getOrCreateSession(w3, channelId, userId)
        w5 == IF ~Live(w4) THEN w4
              ELSE IF direction = "send"
                   THEN [w4 EXCEPT !.vsess[channelId][userId].sendTransport = id]
                   ELSE [w4 EXCEPT !.vsess[channelId][userId].recvTransport = id]
        w6 == IF ~Live(w5) THEN w5 ELSE Ack(w5, TRUE)
    IN  CatchAck(w6)

CreateWebRtcTransport(s, C, F) ==
    /\ conn[s]
    /\ Cardinality(transports) < MaxTransports
    /\ \E channelId \in C, direction \in {"send", "recv"}, fail \in F :
         /\ fail = 1 => channelId \notin routers
         /\ Commit(CreateWebRtcTransportRun(World, s, channelId, direction, fail))

\* the transport of the session that has the id the payload names
SessionTransport(w, channelId, userId, transportId) ==
    LET session == getSession(w, channelId, userId)
    IN  IF ~IsSess(session) THEN {}
        ELSE {t \in w.transports :
                /\ t.id = transportId
                /\ t.id \in {session.sendTransport, session.recvTransport}}

\* CONNECT_TRANSPORT; throw point: 1 transport.connect, which also rejects
\* on a transport that is connected
ConnectTransportRun(w0, s, transportId, fail) ==
    LET userId == w0.sdata[s].userId
        channelId == w0.sdata[s].currentChannelId
        session == getSession(w0, channelId, userId)
        found == SessionTransport(w0, channelId, userId, transportId)
        w1 == Begin(w0, s, "CONNECT_TRANSPORT")
        w2 == IF fail = 1 \/ \E t \in found : t.connected THEN Throw(w1)
              ELSE [w1 EXCEPT !.transports =
                       {IF t \in found THEN [t EXCEPT !.connected = TRUE] ELSE t :
                          t \in @}]
        w3 == IF ~Live(w2) THEN w2 ELSE Ack(w2, TRUE)
    IN  IF channelId = None THEN Ack(w1, FALSE)
        ELSE IF ~IsSess(session) THEN Ack(w1, FALSE)
        ELSE IF found = {} THEN Ack(w1, FALSE)
        ELSE CatchAck(w3)

ConnectTransport(s, F) ==
    /\ conn[s]
    /\ \E transportId \in 1..MaxTransports, fail \in F :
         /\ fail = 1 => SessionTransport(World, sdata[s].currentChannelId,
                                         sdata[s].userId, transportId) # {}
         /\ Commit(ConnectTransportRun(World, s, transportId, fail))

\* PRODUCE; throw point: 1 sendTransport.produce
ProduceRun(w0, s, transportId, fail) ==
    LET userId == w0.sdata[s].userId
        channelId == w0.sdata[s].currentChannelId
        session == getSession(w0, channelId, userId)
        w1 == Begin(w0, s, "PRODUCE")
        id == FreshId({p.id : p \in w0.producers})
        w2 == IF fail = 1 THEN Throw(w1)
              ELSE [w1 EXCEPT !.producers = @ \cup
                                  {[id |-> id, transport |-> transportId,
                                    chan |-> channelId, user |-> userId]},
                              !.vsess[channelId][userId].producer = id]
        w3 == IF ~Live(w2) THEN w2
              ELSE SocketToEmit(w2, s, ChannelRoom(channelId), "NEW_PRODUCER",
                                userId, id, {})
        w4 == IF ~Live(w3) THEN w3 ELSE Ack(w3, TRUE)
    IN  IF channelId = None THEN Ack(w1, FALSE)
        ELSE IF ~IsSess(session) \/ session.sendTransport = 0
                \/ session.sendTransport # transportId
        THEN Ack(w1, FALSE)
        ELSE CatchAck(w4)

Produce(s, F) ==
    /\ conn[s]
    /\ Cardinality(producers) < MaxProducers
    /\ \E transportId \in 1..MaxTransports, fail \in F :
         /\ fail = 1 =>
              LET session == getSession(World, sdata[s].currentChannelId, sdata[s].userId)
              IN  /\ sdata[s].currentChannelId # None
                  /\ IsSess(session) /\ session.sendTransport = transportId
         /\ Commit(ProduceRun(World, s, transportId, fail))

\* router.canConsume: the router holds the producer
canConsume(w, channelId, producerId) ==
    \E p \in w.producers : p.id = producerId /\ p.chan = channelId

\* CONSUME; throw point: 1 recvTransport.consume
ConsumeRun(w0, s, producerId, fail) ==
    LET userId == w0.sdata[s].userId
        channelId == w0.sdata[s].currentChannelId
        session == getSession(w0, channelId, userId)
        w1 == Begin(w0, s, "CONSUME")
        id == FreshId({c.id : c \in w0.consumers})
        w2 == IF fail = 1 THEN Throw(w1)
              ELSE [w1 EXCEPT !.consumers = @ \cup
                                  {[id |-> id, producerId |-> producerId,
                                    transport |-> session.recvTransport,
                                    sock |-> s, chan |-> channelId,
                                    user |-> userId, paused |-> TRUE]},
                              !.vsess[channelId][userId].consumers = @ \cup {id}]
        w3 == IF ~Live(w2) THEN w2 ELSE Ack(w2, TRUE)
    IN  IF channelId = None THEN Ack(w1, FALSE)
        ELSE IF channelId \notin w0.routers \/ ~IsSess(session)
                \/ session.recvTransport = 0
        THEN Ack(w1, FALSE)
        ELSE IF ~canConsume(w0, channelId, producerId) THEN Ack(w1, FALSE)
        ELSE CatchAck(w3)

ConsumeReady(s, producerId) ==
    LET channelId == sdata[s].currentChannelId
        session == getSession(World, channelId, sdata[s].userId)
    IN  /\ channelId # None /\ channelId \in routers
        /\ IsSess(session) /\ session.recvTransport # 0
        /\ canConsume(World, channelId, producerId)

Consume(s, F) ==
    /\ conn[s]
    /\ Cardinality(consumers) < MaxConsumers
    /\ \E producerId \in 1..MaxProducers, fail \in F :
         /\ fail = 1 => ConsumeReady(s, producerId)
         /\ Commit(ConsumeRun(World, s, producerId, fail))

\* session.consumers.get(consumerId) of the session (channelId, userId)
ConsumerOf(w, channelId, userId, consumerId) ==
    {c \in w.consumers :
        /\ c.id = consumerId /\ c.chan = channelId /\ c.user = userId
        /\ consumerId \in getSession(w, channelId, userId).consumers}

\* RESUME_CONSUMER; throw point: 1 consumer.resume
ResumeConsumerRun(w0, s, consumerId, fail) ==
    LET userId == w0.sdata[s].userId
        channelId == w0.sdata[s].currentChannelId
        found == ConsumerOf(w0, channelId, userId, consumerId)
        w1 == Begin(w0, s, "RESUME_CONSUMER")
        w2 == IF fail = 1 THEN Throw(w1)
              ELSE [w1 EXCEPT !.consumers =
                       {IF c \in found THEN [c EXCEPT !.paused = FALSE] ELSE c :
                          c \in @}]
        w3 == IF ~Live(w2) THEN w2 ELSE Ack(w2, TRUE)
    IN  IF channelId = None THEN Ack(w1, FALSE)
        ELSE IF found = {} THEN Ack(w1, FALSE)
        ELSE CatchAck(w3)

ResumeConsumer(s, F) ==
    /\ conn[s]
    /\ \E consumerId \in 1..MaxConsumers, fail \in F :
         /\ fail = 1 => ConsumerOf(World, sdata[s].currentChannelId,
                                   sdata[s].userId, consumerId) # {}
         /\ Commit(ResumeConsumerRun(World, s, consumerId, fail))

\* CLOSE_PRODUCER (no acknowledgement, no await)
CloseProducerRun(w0, s, producerId) ==
    LET userId == w0.sdata[s].userId
        channelId == w0.sdata[s].currentChannelId
        session == getSession(w0, channelId, userId)
        w1 == Begin(w0, s, "CLOSE_PRODUCER")
    IN  IF channelId = None THEN w1
        ELSE IF IsSess(session) /\ session.producer = producerId
        THEN SocketToEmit([ProducerClose(w1, producerId) EXCEPT
                              !.vsess[channelId][userId].producer = 0],
                          s, ChannelRoom(channelId), "PRODUCER_CLOSED",
                          userId, producerId, {})
        ELSE w1

CloseProducer(s) ==
    /\ conn[s]
    /\ \E producerId \in 1..MaxProducers :
         Commit(CloseProducerRun(World, s, producerId))

\* ------------------------------------------------------------ permissions
\* getUserPermissions: the OR of the permissions of the user's roles that
\* belong to the server
RECURSIVE Combined(_, _)
Combined(rs, serverId) ==
    IF rs = {} THEN 0
    ELSE LET r == CHOOSE x \in rs : TRUE
         IN  IF RoleServer(r) = serverId
             THEN BitOr(Combined(rs \ {r}, serverId), RolePermissions(r))
             ELSE Combined(rs \ {r}, serverId)

\* a mask computed from the assignments as they were before the event ran
getUserPermissionsStale(w, userId, serverId) ==
    Combined({r \in Roles : <<userId, r>> \in userRoles}, serverId)

getUserPermissions(w, userId, serverId) ==
    Combined({r \in Roles : <<userId, r>> \in w.userRoles}, serverId)

\* the check without its look at the mask
requirePermissionOpen(w, s, permission, rejects) ==
    IF ~Truthy(w.sdata[s].userId) \/ ~Truthy(w.sdata[s].serverId)
    THEN [SocketEmit(w, s, "ERROR", "NOT_AUTHENTICATED", 0, {})
             EXCEPT !.run.perm = "NOT_AUTHENTICATED"]
    ELSE IF rejects THEN [w EXCEPT !.run.perm = "THROW"]
    ELSE [w EXCEPT !.run.perm = "OK"]

\* requirePermission: run.perm is what the check came to; `rejects`: the role
\* lookup of getUserPermissions rejects, and requirePermission with it
requirePermission(w, s, permission, rejects) ==
    LET userId == w.sdata[s].userId
        serverId == w.sdata[s].serverId
    IN  IF ~Truthy(userId) \/ ~Truthy(serverId)
        THEN [SocketEmit(w, s, "ERROR", "NOT_AUTHENTICATED", 0, {})
                 EXCEPT !.run.perm = "NOT_AUTHENTICATED"]
        ELSE IF rejects THEN [w EXCEPT !.run.perm = "THROW"]
        ELSE IF ~hasPermission(getUserPermissions(w, userId, serverId), permission)
        THEN [SocketEmit(w, s, "ERROR", "PERMISSION_DENIED", 0, {})
                 EXCEPT !.run.perm = "PERMISSION_DENIED"]
        ELSE [w EXCEPT !.run.perm = "OK"]

\* an exception no catch block holds: the handler's promise rejects
Escape(w) == [w EXCEPT !.run.escaped = TRUE, !.run.failed = TRUE]

\* --------------------------------------------------------------- channels
Names == {"a", "b"}
Blank == " "
Padded == " hi "
\* a trim that leaves the string as it is
TrimNothing(str) == str

\* String.prototype.trim on the strings of the model
Trim(str) == IF str = Blank THEN Empty ELSE IF str = Padded THEN "hi" ELSE str

\* broadcastTreeUpdate; `rejects`: channel.findMany rejects
broadcastTreeUpdate(w, serverId, rejects) ==
    IF rejects THEN Throw(w)
    ELSE IoToEmit(w, ServerRoom(serverId), "CHANNEL_TREE_UPDATE", serverId, 0,
                  {buildChannelTree(findManyChannels(w, serverId))})

\* getNextPosition: one more than the greatest position under the parent
getNextPosition(w, serverId, parentId) ==
    LET ps == {w.chanRows[c].position :
                 c \in {x \in ChannelsOf(w, serverId) :
                          w.chanRows[x].parentId = parentId}}
    IN  IF ps = {} THEN 0
        ELSE (CHOOSE m \in ps : \A q \in ps : q <= m) + 1

\* the id of the row channel.create inserts
NewChannelId(w) ==
    ChanPool[CHOOSE i \in 1..MaxChannels :
               /\ w.chanRows[ChanPool[i]] = NoRow
               /\ \A j \in 1..(i - 1) : w.chanRows[ChanPool[j]] # NoRow]

\* CREATE_CHANNEL
\* throw points: 1 channel.aggregate, 2 channel.create, 3 channel.findMany
CreateChannelRun(w0, s, serverId, name, parentId, fail) ==
    LET w1 == Begin(w0, s, "CREATE_CHANNEL")
        id == NewChannelId(w1)
        w2 == IF fail = 1 \/ fail = 2 THEN Throw(w1)
              ELSE [w1 EXCEPT !.chanRows[id] =
                       [serverId |-> serverId, name |-> Trim(name),
                        parentId |-> parentId,
                        position |-> getNextPosition(w1, serverId, parentId)]]
        w3 == IF ~Live(w2) THEN w2 ELSE AckWith(w2, TRUE, None, {id})
        w4 == IF ~Live(w3) THEN w3 ELSE broadcastTreeUpdate(w3, serverId, fail = 3)
    IN  IF name = Empty \/ Trim(name) = Empty
        THEN AckWith(w1, FALSE, "Channel name is required", {})
        ELSE IF Live(w4) THEN w4
        ELSE AckWith(w4, FALSE, "Failed to create channel", {})

\* the parent a CREATE_CHANNEL can name: the foreign key of the row holds
\* for null and for the id of a row
ParentIds == {None} \cup {c \in ChannelIds : chanRows[c] # NoRow}

CreateChannel(s, N, P, F) ==
    /\ conn[s]
    /\ \E c \in ChannelIds : chanRows[c] = NoRow
    /\ \E serverId \in ServerIds, name \in N, parentId \in P, fail \in F :
         /\ fail # 0 => Trim(name) # Empty
         /\ getNextPosition(World, serverId, parentId) <= MaxPosition
         /\ Commit(CreateChannelRun(World, s, serverId, name, parentId, fail))

\* a delete that takes the children with it
ChannelDeleteCascade(w, channelId) ==
    [w EXCEPT
       !.chanRows = [c \in ChannelIds |->
                       IF c = channelId \/ (@[c] # NoRow /\ @[c].parentId = channelId)
                       THEN NoRow ELSE @[c]],
       !.msgRows = SelectSeq(@, LAMBDA m : m.channelId # channelId)]

\* channel.delete: the messages of the channel go with it (onDelete: Cascade)
\* and its children lose their parent (onDelete: SetNull)
ChannelDelete(w, channelId) ==
    [w EXCEPT
       !.chanRows = [c \in ChannelIds |->
                       IF c = channelId THEN NoRow
                       ELSE IF @[c] # NoRow /\ @[c].parentId = channelId
                       THEN [@[c] EXCEPT !.parentId = None]
                       ELSE @[c]],
       !.msgRows = SelectSeq(@, LAMBDA m : m.channelId # channelId)]

\* DELETE_CHANNEL
\* throw points: 1 channel.findUnique, 2 channel.delete, 3 channel.findMany
DeleteChannelRun(w0, s, channelId, fail) ==
    LET w1 == Begin(w0, s, "DELETE_CHANNEL")
        channel == w0.chanRows[channelId]
        w2 == IF fail = 2 THEN Throw(w1) ELSE ChannelDelete(w1, channelId)
        w3 == IF ~Live(w2) THEN w2 ELSE Ack(w2, TRUE)
        w4 == IF ~Live(w3) THEN w3
              ELSE broadcastTreeUpdate(w3, channel.serverId, fail = 3)
        w5 == IF ~Live(w4) THEN w4
              ELSE IoToEmit(w4, ServerRoom(channel.serverId), "CHANNEL_DELETED",
                            channelId, 0, {})
    IN  IF fail = 1 THEN AckWith(Throw(w1), FALSE, "Failed to delete channel", {})
        ELSE IF channel = NoRow THEN AckWith(w1, FALSE, "Channel not found", {})
        ELSE IF Live(w5) THEN w5
        ELSE AckWith(w5, FALSE, "Failed to delete channel", {})

DeleteChannel(s, F) ==
    /\ conn[s]
    /\ \E channelId \in ChannelIds, fail \in F :
         /\ fail > 1 => chanRows[channelId] # NoRow
         /\ Commit(DeleteChannelRun(World, s, channelId, fail))

\* an UPDATE_CHANNEL that takes a parentId as well
UpdateDataWithParent ==
    {[x \in {} |-> None]}
      \cup {[position |-> p] : p \in 0..1}
      \cup {[parentId |-> c] : c \in ChannelIds}

\* the `data` of an UPDATE_CHANNEL: the fields the payload defines
UpdateData ==
    {[x \in {} |-> None]}
      \cup {[name |-> Trim(n)] : n \in {"b"}}
      \cup {[position |-> p] : p \in 0..1}
      \cup {[name |-> Trim(n), position |-> p] : n \in {"b"}, p \in 0..1}

\* UPDATE_CHANNEL; throw points: 1 channel.update, 2 channel.findMany
\* channel.update rejects when no row has the id
UpdateChannelRun(w0, s, channelId, data, fail) ==
    LET w1 == Begin(w0, s, "UPDATE_CHANNEL")
        old == w0.chanRows[channelId]
        w2 == IF fail = 1 \/ old = NoRow THEN Throw(w1)
              ELSE [w1 EXCEPT !.chanRows[channelId] =
                       [f \in DOMAIN old |->
                          IF f \in DOMAIN data THEN data[f] ELSE old[f]]]
        w3 == IF ~Live(w2) THEN w2 ELSE Ack(w2, TRUE)
        w4 == IF ~Live(w3) THEN w3 ELSE broadcastTreeUpdate(w3, old.serverId, fail = 2)
    IN  IF DOMAIN data = {} THEN AckWith(w1, FALSE, "No changes provided", {})
        ELSE IF Live(w4) THEN w4
        ELSE AckWith(w4, FALSE, "Failed to update channel", {})

UpdateChannel(s, D, F) ==
    /\ conn[s]
    /\ \E channelId \in ChannelIds, data \in D, fail \in F :
         /\ fail # 0 => DOMAIN data # {}
         /\ fail = 2 => chanRows[channelId] # NoRow
         /\ Commit(UpdateChannelRun(World, s, channelId, data, fail))

\* --------------------------------------------------------------- messages
Contents == {Empty, Blank, "hi", Padded}

\* SEND_MESSAGE
\* throw points: 1 userRole.findMany (requirePermission), 2 channel.findUnique,
\* 3 message.create
SendMessageRun(w0, s, channelId, content, fail) ==
    LET w1 == Begin(w0, s, "SEND_MESSAGE")
        w2 == requirePermission(w1, s, SEND_MESSAGES, fail = 1)
        id == FreshId({m.id : m \in {w0.msgRows[i] : i \in 1..Len(w0.msgRows)}})
        w3 == IF fail = 3 THEN Throw(w2)
              ELSE [w2 EXCEPT !.msgRows = Append(@,
                       [id |-> id, channelId |-> channelId,
                        userId |-> w2.sdata[s].userId, content |-> Trim(content),
                        createdAt |-> w2.clock])]
        w4 == IF ~Live(w3) THEN w3
              ELSE IoToEmit(w3, ServerRoom(w3.sdata[s].serverId), "MESSAGE_RECEIVED",
                            w3.sdata[s].userId, id, {channelId})
        w5 == IF ~Live(w4) THEN w4 ELSE AckWith(w4, TRUE, None, {id})
    IN  IF content = Empty \/ Trim(content) = Empty THEN Ack(w1, FALSE)
        ELSE IF w2.run.perm = "THROW" THEN Ack(Throw(w2), FALSE)
        ELSE IF w2.run.perm # "OK" THEN Ack(w2, FALSE)
        ELSE IF fail = 2 THEN Ack(Throw(w2), FALSE)
        ELSE IF w0.chanRows[channelId] = NoRow THEN Ack(w2, FALSE)
        ELSE CatchAck(w5)

SendMessage(s, F) ==
    /\ conn[s]
    /\ Len(msgRows) < MaxMessages
    /\ \E channelId \in ChannelIds, content \in Contents, fail \in F :
         /\ fail # 0 => /\ Trim(content) # Empty
                        /\ Truthy(sdata[s].userId) /\ Truthy(sdata[s].serverId)
         /\ fail > 1 => requirePermission(World, s, SEND_MESSAGES, FALSE).run.perm = "OK"
         /\ fail = 3 => chanRows[channelId] # NoRow
         /\ Commit(SendMessageRun(World, s, channelId, content, fail))

\* time passes: messages created within one millisecond share a createdAt
Tick ==
    /\ clock < MaxTime
    /\ clock' = clock + 1
    /\ UNCHANGED <<conn, sdata, rooms, userRows, userRoles, chanRows, msgRows,
                   presServer, presChannel, presUser, routers, sessMaps, vsess,
                   transports, producers, consumers, tasks, probe, result>>

DefaultLimit == 50
MaxTake == 100

Min(a, b) == IF a <= b THEN a ELSE b

Reverse(seq) == [i \in 1..Len(seq) |-> seq[Len(seq) + 1 - i]]

\* orderBy: {createdAt: "desc"}; the store is free in the order of rows of
\* equal createdAt: `tie` says whether it lists the later row first
RECURSIVE OrderByCreatedAtDesc(_, _)
OrderByCreatedAtDesc(S, tie) ==
    IF S = {} THEN <<>>
    ELSE LET m == CHOOSE x \in S : \A y \in S \ {x} :
                    \/ x.createdAt > y.createdAt
                    \/ /\ x.createdAt = y.createdAt
                       /\ IF tie THEN x.id > y.id ELSE x.id < y.id
         IN  <<m>> \o OrderByCreatedAtDesc(S \ {m}, tie)

\* take of findMany: the first rows of the list, or its last rows when take
\* is negative
Take(list, take) ==
    IF take >= 0 THEN SubSeq(list, 1, Min(take, Len(list)))
    ELSE SubSeq(list, Len(list) - Min(0 - take, Len(list)) + 1, Len(list))

\* the payloads of FETCH_MESSAGES: before and limit are optional
FetchPayloads ==
    LET base == {[channelId |-> c] : c \in ChannelIds}
        withBefore == {[channelId |-> p.channelId, before |-> b] :
                          p \in base, b \in 1..(MaxTime + 1)}
        some == base \cup withBefore
    IN  some \cup {[f \in DOMAIN p \cup {"limit"} |->
                      IF f = "limit" THEN l ELSE p[f]] :
                   p \in some, l \in {-1, 0, 1, 2, DefaultLimit, MaxTake + 1}}

\* what message.findMany of FETCH_MESSAGES matches
FetchWhere(w, payload) ==
    {m \in {w.msgRows[i] : i \in 1..Len(w.msgRows)} :
        /\ m.channelId = payload.channelId
        /\ "before" \in DOMAIN payload => m.createdAt < payload.before}

\* FETCH_MESSAGES; throw point: 1 message.findMany
FetchMessagesRun(w0, s, payload, tie, fail) ==
    LET w1 == Begin(w0, s, "FETCH_MESSAGES")
        limit == IF "limit" \in DOMAIN payload THEN payload.limit ELSE DefaultLimit
        take == Min(limit, MaxTake)
        messages == Take(OrderByCreatedAtDesc(FetchWhere(w1, payload), tie), take)
    IN  IF fail = 1
        THEN AckWith(Throw(w1), FALSE, "Failed to fetch messages", {})
        ELSE AckWith(w1, TRUE, None, {Reverse(messages)})

FetchMessages(s, F) ==
    /\ conn[s]
    /\ \E payload \in FetchPayloads, tie \in BOOLEAN, fail \in F :
         Commit(FetchMessagesRun(World, s, payload, tie, fail))

\* ------------------------------------------------------------------ admin
\* the three admin handlers await requirePermission before their try block
\* throw point 1: userRole.findMany (requirePermission)
AdminGate(w, s, fail) ==
    LET w1 == requirePermission(w, s, MANAGE_ROLES, fail = 1)
    IN  IF w1.run.perm = "THROW" THEN Escape(w1)
        ELSE IF w1.run.perm # "OK"
        THEN AckWith(w1, FALSE, "Permission denied", {})
        ELSE w1

\* GET_ALL_USERS; throw point: 2 user.findMany
GetAllUsersRun(w0, s, serverId, fail) ==
    LET w1 == AdminGate(Begin(w0, s, "GET_ALL_USERS"), s, fail)
        users == {u \in w1.userRows :
                    \E r \in Roles : <<u, r>> \in w1.userRoles /\ RoleServer(r) = serverId}
    IN  IF w1.run.perm # "OK" THEN w1
        ELSE IF fail = 2 THEN AckWith(Throw(w1), FALSE, "Failed to fetch users", {})
        ELSE AckWith(w1, TRUE, None, users)

\* GET_ROLES; throw point: 2 role.findMany
GetRolesRun(w0, s, serverId, fail) ==
    LET w1 == AdminGate(Begin(w0, s, "GET_ROLES"), s, fail)
    IN  IF w1.run.perm # "OK" THEN w1
        ELSE IF fail = 2 THEN AckWith(Throw(w1), FALSE, "Failed to fetch roles", {})
        ELSE AckWith(w1, TRUE, None, {r \in Roles : RoleServer(r) = serverId})

\* an insert: it rejects when the row is there already
userRoleCreate(w, userId, roleId) ==
    IF userId \notin w.userRows \/ <<userId, roleId>> \in w.userRoles THEN Throw(w)
    ELSE [w EXCEPT !.userRoles = @ \cup {<<userId, roleId>>}]

\* userRole.upsert({where: {userId_roleId}, update: {}, create: {userId, roleId}})
\* it rejects when no user row has the id (the foreign key)
userRoleUpsert(w, userId, roleId) ==
    IF userId \notin w.userRows THEN Throw(w)
    ELSE [w EXCEPT !.userRoles = @ \cup {<<userId, roleId>>}]

\* userRole.deleteMany({where: {userId, roleId}})
userRoleDeleteMany(w, userId, roleId) ==
    [w EXCEPT !.userRoles = @ \ {<<userId, roleId>>}]

\* ASSIGN_ROLE; throw point: 2 userRole.upsert / userRole.deleteMany
AssignRoleRun(w0, s, userId, roleId, action, fail) ==
    LET w1 == AdminGate(Begin(w0, s, "ASSIGN_ROLE"), s, fail)
        w2 == IF fail = 2 THEN Throw(w1)
              ELSE IF action = "add" THEN userRoleUpsert(w1, userId, roleId)
              ELSE userRoleDeleteMany(w1, userId, roleId)
    IN  IF w1.run.perm # "OK" THEN w1
        ELSE IF Live(w2) THEN Ack(w2, TRUE)
        ELSE AckWith(w2, FALSE, "Failed to assign role", {})

AdminFails(s, fail) ==
    /\ fail # 0 => Truthy(sdata[s].userId) /\ Truthy(sdata[s].serverId)
    /\ fail = 2 => requirePermission(World, s, MANAGE_ROLES, FALSE).run.perm = "OK"

GetAllUsers(s, F) ==
    /\ conn[s]
    /\ \E serverId \in ServerIds, fail \in F :
         /\ AdminFails(s, fail)
         /\ Commit(GetAllUsersRun(World, s, serverId, fail))

GetRoles(s, F) ==
    /\ conn[s]
    /\ \E serverId \in ServerIds, fail \in F :
         /\ AdminFails(s, fail)
         /\ Commit(GetRolesRun(World, s, serverId, fail))

AssignRole(s, F) ==
    /\ conn[s]
    /\ \E userId \in Users, roleId \in Roles, action \in {"add", "remove"},
          fail \in F :
         /\ AdminFails(s, fail)
         /\ Commit(AssignRoleRun(World, s, userId, roleId, action, fail))

\* ------------------------------------------- handlers, one await at a time
\* A handler is an async function: it runs until an await of a call that
\* leaves the process (Redis, the mediasoup worker), and while it waits the
\* event loop runs whatever comes next: another event of the same socket,
\* of another one, or the "disconnect" of its own. The command a handler
\* waits for takes effect when the handler is resumed.
MaxInFlight == 2

NoTask == [evt |-> "none", userId |-> None, serverId |-> None, channelId |-> None,
           direction |-> None, pc |-> "done", prev |-> None, overlapped |-> FALSE]

NewTask(evt, userId, serverId, channelId, pc) ==
    [NoTask EXCEPT !.evt = evt, !.userId = userId, !.serverId = serverId,
                   !.channelId = channelId, !.pc = pc]

RemoveAt(seq, i) == SubSeq(seq, 1, i - 1) \o SubSeq(seq, i + 1, Len(seq))

\* the handlers of socket `s` that began and did not finish
InFlight(s) == {i \in DOMAIN tasks[s] : tasks[s][i].pc # "done"}

At(s, evt, pc) == {i \in DOMAIN tasks[s] : tasks[s][i].evt = evt /\ tasks[s][i].pc = pc}

\* the handlers that wait, of every socket
Waiting == {<<s, i>> \in Sockets \X (1..(MaxInFlight + 1)) : i \in InFlight(s)}

\* socket.on(evt, ...): Socket.io calls the listener as the packet arrives
MayBegin(s) == conn[s] /\ Cardinality(Waiting) < MaxInFlight

\* the handler ran up to its first await
Suspend(s, w, t) ==
    /\ CommitServer(w)
    /\ tasks' = [tasks EXCEPT ![s] = Append(@, t)]
    /\ UNCHANGED <<probe, result>>

\* the handler ran from one await to the next
Resume(s, i, w, pc) ==
    /\ CommitServer(w)
    /\ tasks' = [tasks EXCEPT ![s][i].pc = pc]
    /\ UNCHANGED <<probe, result>>

\* the handler ran from its last await to its end
Finish(s, i, w) ==
    /\ CommitServer(w)
    /\ tasks' = [tasks EXCEPT ![s] = RemoveAt(@, i)]
    /\ UNCHANGED <<probe, result>>

\* HGET replied: the handler holds what it read and sends its pipeline
Hget(s, i, pc) ==
    /\ tasks' = [tasks EXCEPT ![s][i].prev = HgetChannelId(World, tasks[s][i].userId),
                              ![s][i].pc = pc]
    /\ CommitServer(World)
    /\ UNCHANGED <<probe, result>>

\* USER_JOIN_CHANNEL, lines 174-186: up to `await this.redis.hget`
BeginJoinChannel(s, C) ==
    /\ MayBegin(s)
    /\ \E channelId \in C :
         LET prev == sdata[s].currentChannelId
             w1 == IF prev # None
                   THEN [World EXCEPT !.rooms[s] = @ \ {ChannelRoom(prev)}]
                   ELSE World
             w2 == [w1 EXCEPT !.sdata[s].currentChannelId = channelId,
                              !.rooms[s] = @ \cup {ChannelRoom(channelId)}]
         IN  Suspend(s, w2, NewTask("USER_JOIN_CHANNEL", sdata[s].userId,
                                    sdata[s].serverId, channelId, "joinChannel.hget"))

JoinChannelHget(s) ==
    \E i \in At(s, "USER_JOIN_CHANNEL", "joinChannel.hget") :
        Hget(s, i, "joinChannel.exec")

JoinChannelExec(s) ==
    \E i \in At(s, "USER_JOIN_CHANNEL", "joinChannel.exec") :
        LET t == tasks[s][i]
        IN  Resume(s, i, PresenceJoinChannelExec(World, t.userId, t.channelId, t.prev),
                   "getChannelOccupants")

\* lines 189-231: the occupants replied
JoinChannelOccupants(s) ==
    \E i \in At(s, "USER_JOIN_CHANNEL", "getChannelOccupants") :
        LET t == tasks[s][i]
            w1 == IoToEmit(World, ServerRoom(sdata[s].serverId), "PRESENCE_UPDATE",
                           t.channelId, 0, getChannelOccupants(World, t.channelId))
            w2 == Ack(w1, TRUE)
            existingProducers == getExistingProducers(w2, t.channelId, t.userId)
            w3 == IF existingProducers = {} THEN w2
                  ELSE SocketEmit(w2, s, "EXISTING_PRODUCERS", t.channelId, 0,
                                  existingProducers)
        IN  Finish(s, i, w3)

\* USER_LEAVE_CHANNEL, lines 243-249: up to the pipeline of leaveChannel
BeginLeaveChannel(s, C) ==
    /\ MayBegin(s)
    /\ \E channelId \in C :
         Suspend(s, [World EXCEPT !.rooms[s] = @ \ {ChannelRoom(channelId)}],
                 NewTask("USER_LEAVE_CHANNEL", sdata[s].userId, sdata[s].serverId,
                         channelId, "leaveChannel.exec"))

\* lines 249-263
LeaveChannelExec(s) ==
    \E i \in At(s, "USER_LEAVE_CHANNEL", "leaveChannel.exec") :
        LET t == tasks[s][i]
            w1 == PresenceLeaveChannel(World, t.userId, t.channelId)
            w2 == CloseVoice(w1, s, t.channelId, t.userId)
        IN  Resume(s, i, [w2 EXCEPT !.sdata[s].currentChannelId = None],
                   "getChannelOccupants")

\* lines 263-281
LeaveChannelOccupants(s) ==
    \E i \in At(s, "USER_LEAVE_CHANNEL", "getChannelOccupants") :
        LET t == tasks[s][i]
        IN  Finish(s, i, IoToEmit(World, ServerRoom(sdata[s].serverId),
                                  "PRESENCE_UPDATE", t.channelId, 0,
                                  getChannelOccupants(World, t.channelId)))

\* USER_LEAVE_SERVER, lines 154-158: up to `await this.redis.hget`
BeginLeaveServer(s) ==
    /\ MayBegin(s)
    /\ \E serverId \in ServerIds :
         Suspend(s, World, NewTask("USER_LEAVE_SERVER", sdata[s].userId, serverId,
                                   None, "leaveServer.hget"))

LeaveServerHget(s) ==
    \E i \in At(s, "USER_LEAVE_SERVER", "leaveServer.hget") :
        Hget(s, i, "leaveServer.exec")

\* lines 158-164
LeaveServerExec(s) ==
    \E i \in At(s, "USER_LEAVE_SERVER", "leaveServer.exec") :
        LET t == tasks[s][i]
            w1 == PresenceLeaveServerExec(World, t.userId, t.serverId, t.prev)
            w2 == [w1 EXCEPT !.rooms[s] = @ \ {ServerRoom(t.serverId)}]
        IN  Finish(s, i, SocketToEmit(w2, s, ServerRoom(t.serverId), "USER_LEFT",
                                      t.userId, 0, {}))

\* disconnect, lines 289-307: Socket.io emits "disconnect" when the transport
\* closes, whatever the handlers of the socket are waiting for. The handler
\* copies socket.data and runs up to its first await.
BeginDisconnect(s) ==
    /\ conn[s]
    /\ LET d == sdata[s]
           w1 == [World EXCEPT !.conn[s] = FALSE, !.rooms[s] = {}]
           t == [NewTask("disconnect", d.userId, d.serverId, d.currentChannelId,
                         "done") EXCEPT !.overlapped = InFlight(s) # {}]
       IN  IF d.serverId = None THEN Suspend(s, w1, t)
           ELSE IF d.currentChannelId # None
           THEN Suspend(s, CloseVoice(w1, s, d.currentChannelId, d.userId),
                        [t EXCEPT !.pc = "leaveChannel.exec"])
           ELSE Suspend(s, w1, [t EXCEPT !.pc = "leaveServer.hget"])

\* line 307
DisconnectLeaveChannel(s) ==
    \E i \in At(s, "disconnect", "leaveChannel.exec") :
        LET t == tasks[s][i]
        IN  Resume(s, i, PresenceLeaveChannel(World, t.userId, t.channelId),
                   "getChannelOccupants")

\* lines 310-331
DisconnectOccupants(s) ==
    \E i \in At(s, "disconnect", "getChannelOccupants") :
        LET t == tasks[s][i]
        IN  Resume(s, i, IoToEmit(World, ServerRoom(t.serverId), "PRESENCE_UPDATE",
                                  t.channelId, 0,
                                  getChannelOccupants(World, t.channelId)),
                   "leaveServer.hget")

DisconnectHget(s) ==
    \E i \in At(s, "disconnect", "leaveServer.hget") :
        Hget(s, i, "leaveServer.exec")

\* lines 331-336: the handler stays on record as finished
DisconnectExec(s) ==
    \E i \in At(s, "disconnect", "leaveServer.exec") :
        LET t == tasks[s][i]
            w1 == PresenceLeaveServerExec(World, t.userId, t.serverId, t.prev)
        IN  Resume(s, i, IoToEmit(w1, ServerRoom(t.serverId), "USER_LEFT",
                                  t.userId, 0, {}),
                   "done")

\* CREATE_WEBRTC_TRANSPORT, lines 70-73: getOrCreateRouter returns the router
\* it finds, or waits for worker.createRouter
BeginCreateWebRtcTransport(s, C) ==
    /\ MayBegin(s)
    /\ \E channelId \in C, direction \in {"send", "recv"} :
         Suspend(s, World,
                 [NewTask("CREATE_WEBRTC_TRANSPORT", sdata[s].userId,
                          sdata[s].serverId, channelId,
                          IF channelId \in routers THEN "createWebRtcTransport"
                          ELSE "createRouter")
                     EXCEPT !.direction = direction])

\* getOrCreateRouter after its await: routers.set, sessions.set(new Map())
RouterCreated(w, channelId) ==
    [w EXCEPT !.routers = @ \cup {channelId},
              !.sessMaps = @ \cup {channelId},
              !.vsess[channelId] = EmptyMap]

CreateRouterDone(s) ==
    \E i \in At(s, "CREATE_WEBRTC_TRANSPORT", "createRouter") :
        Resume(s, i, RouterCreated(World, tasks[s][i].channelId),
               "createWebRtcTransport")

\* GET_ROUTER_CAPABILITIES, lines 49-52, for a channel without router:
\* getOrCreateRouter waits for worker.createRouter
BeginGetRouterCapabilities(s, C) ==
    /\ MayBegin(s)
    /\ \E channelId \in C \ routers :
         Suspend(s, World, NewTask("GET_ROUTER_CAPABILITIES", sdata[s].userId,
                                   sdata[s].serverId, channelId, "createRouter"))

\* lines 52-67: the router is installed and its capabilities acknowledged
GetRouterDone(s) ==
    \E i \in At(s, "GET_ROUTER_CAPABILITIES", "createRouter") :
        Finish(s, i, Ack(RouterCreated(World, tasks[s][i].channelId), TRUE))

\* lines 74-118: the transport is there; a router closed in the meantime
\* rejects the call
CreateTransportDone(s) ==
    /\ Cardinality(transports) < MaxTransports
    /\ \E i \in At(s, "CREATE_WEBRTC_TRANSPORT", "createWebRtcTransport") :
         LET t == tasks[s][i]
             userId == sdata[s].userId
             id == FreshId({x.id : x \in transports})
             w1 == [World EXCEPT !.transports = @ \cup {NewTransport(id, t.channelId)}]
             w2 == getOrCreateSession(w1, t.channelId, userId)
             w3 == IF t.direction = "send"
                   THEN [w2 EXCEPT !.vsess[t.channelId][userId].sendTransport = id]
                   ELSE [w2 EXCEPT !.vsess[t.channelId][userId].recvTransport = id]
         IN  IF t.channelId \notin routers THEN Finish(s, i, Ack(World, FALSE))
             ELSE Finish(s, i, Ack(w3, TRUE))

\* ---------------------------------------------------------- specification
InitServer ==
    /\ conn = [s \in Sockets |-> FALSE]
    /\ sdata = [s \in Sockets |-> NoData]
    /\ rooms = [s \in Sockets |-> {}]
    /\ userRows = {}
    /\ userRoles = {}
    /\ chanRows = [c \in ChannelIds |-> NoRow]
    /\ msgRows = <<>>
    /\ clock = 1
    /\ presServer = [x \in ServerIds |-> {}]
    /\ presChannel = [c \in VoiceChannels |-> {}]
    /\ presUser = [u \in UserKeys |-> NoHash]
    /\ routers = {}
    /\ sessMaps = {}
    /\ vsess = [c \in VoiceChannels |-> EmptyMap]
    /\ transports = {}
    /\ producers = {}
    /\ consumers = {}
    /\ tasks = [s \in Sockets |-> <<>>]

NoProbe == [m |-> 0, f |-> 0]

Init == InitServer /\ probe = NoProbe /\ result = {}

serverVars == <<conn, sdata, rooms, userRows, userRoles, chanRows, msgRows, clock,
                presServer, presChannel, presUser, routers, sessMaps, vsess,
                transports, producers, consumers, tasks>>

\* hasPermission on every mask of the nine flags and every flag
Masks == 0..(2 * ADMIN - 1)

InitPerm ==
    /\ InitServer
    /\ probe \in [m : Masks, f : Flags]
    /\ result = {}

CheckPermission ==
    /\ result = {}
    /\ result' = {hasPermission(probe.m, probe.f)}
    /\ UNCHANGED <<serverVars, probe>>

SpecPerm == InitPerm /\ [][CheckPermission]_vars

\* buildChannelTree on every list of up to MaxRows rows with distinct ids,
\* whose parents are null, rows of the list or no row at all, without cycle
BuildIds == {ChanPool[i] : i \in 1..MaxRows}
Dangling == "cx"
BuildRows == [id : BuildIds, parentId : BuildIds \cup {None, Dangling},
              position : 0..1]

RECURSIVE RowWalkEnds(_, _, _)
RowWalkEnds(rows, c, n) ==
    LET at == {i \in DOMAIN rows : rows[i].id = c}
    IN  IF at = {} THEN TRUE
        ELSE IF n = 0 THEN FALSE
        ELSE RowWalkEnds(rows, rows[CHOOSE i \in at : TRUE].parentId, n - 1)

BuildInputs(n) ==
    {rows \in [1..n -> BuildRows] :
        /\ \A i, j \in DOMAIN rows : i # j => rows[i].id # rows[j].id
        /\ \A i \in DOMAIN rows : RowWalkEnds(rows, rows[i].id, MaxRows)}

InitBuild ==
    /\ InitServer
    /\ \E n \in 0..MaxRows : probe \in BuildInputs(n)
    /\ result = {}

BuildTree ==
    /\ result = {}
    /\ result' = {buildChannelTree(probe)}
    /\ UNCHANGED <<serverVars, probe>>

SpecBuild == InitBuild /\ [][BuildTree]_vars

Joined(s) == sdata[s].userId # None

\* the instance id a client sends: one installation per socket
InstanceOf(s) == IF s = 1 THEN "u1" ELSE "u2"

\* the channel a well-behaved client names in a voice payload: the one it is in
Current(s) == {sdata[s].currentChannelId} \cap VoiceChannels

NoFail == {0}

\* Voice and presence: clients that join the server first and name their own
\* channel; every call of the disconnect handler can reject.
NextVoice ==
    \E s \in Sockets :
        \/ Connect(s)
        \/ ~Joined(s) /\ JoinServer(s, {InstanceOf(s)}, NoFail)
        \/ Joined(s) /\ JoinChannel(s, VoiceChannels, NoFail)
        \/ Joined(s) /\ LeaveChannel(s, Current(s), NoFail)
        \/ Disconnect(s, 0..3)
        \/ Joined(s) /\ GetRouterCapabilities(s, Current(s), NoFail)
        \/ Joined(s) /\ CreateWebRtcTransport(s, Current(s), NoFail)
        \/ Joined(s) /\ Produce(s, NoFail)
        \/ Joined(s) /\ Consume(s, NoFail)
        \/ Joined(s) /\ CloseProducer(s)

SpecVoice == Init /\ [][NextVoice]_vars

\* Voice without the client's good manners: one socket, of a member, that
\* can send a voice or presence event before it joined and after a join that
\* failed, with any channel in the payload.
NextGate ==
    \E s \in {NumSockets} :
        \/ Connect(s)
        \/ JoinServer(s, {InstanceOf(s)}, 0..2)
        \/ JoinChannel(s, VoiceChannels, NoFail)
        \/ LeaveChannel(s, Current(s), NoFail)
        \/ Disconnect(s, NoFail)
        \/ GetRouterCapabilities(s, VoiceChannels, 0..1)
        \/ CreateWebRtcTransport(s, VoiceChannels, 0..2)
        \/ Produce(s, 0..1)

SpecGate == Init /\ [][NextGate]_vars

\* the instance id of a client is the one its installation stored: a socket
\* that joins again sends the id it sent before
InstanceIds(s) == IF Joined(s) THEN {sdata[s].userId} ELSE Users

\* Consumers: sessions that joined, two of them under the same instance id
\* or not, that join a channel and go through the voice handshake there;
\* consumer.resume can reject.
NextConsume ==
    \E s \in Sockets :
        \/ Connect(s)
        \/ ~Joined(s) /\ JoinServer(s, InstanceIds(s), NoFail)
        \/ Joined(s) /\ JoinChannel(s, VoiceChannels, NoFail)
        \/ Joined(s) /\ CreateWebRtcTransport(s, Current(s), NoFail)
        \/ Joined(s) /\ Produce(s, NoFail)
        \/ Joined(s) /\ Consume(s, NoFail)
        \/ Joined(s) /\ ResumeConsumer(s, 0..1)
        \/ Joined(s) /\ ConnectTransport(s, NoFail)
        \/ Joined(s) /\ CloseProducer(s)
        \/ Joined(s) /\ LeaveChannel(s, Current(s), NoFail)

SpecConsume == Init /\ [][NextConsume]_vars

\* Routers: clients that joined a channel and begin the voice handshake in
\* it, each under its own instance id, while worker.createRouter takes its
\* time.
NextRouter ==
    \E s \in Sockets :
        \/ Connect(s)
        \/ ~Joined(s) /\ JoinServer(s, {InstanceOf(s)}, NoFail)
        \/ Joined(s) /\ JoinChannel(s, VoiceChannels, NoFail)
        \/ Joined(s) /\ BeginGetRouterCapabilities(s, Current(s))
        \/ GetRouterDone(s)
        \/ Joined(s) /\ BeginCreateWebRtcTransport(s, Current(s))
        \/ CreateRouterDone(s)
        \/ CreateTransportDone(s)

SpecRouter == Init /\ [][NextRouter]_vars

\* the clients that send their events without waiting for a reply
Impatient == {1}

\* Handlers that wait, presence: clients that join the server once, each
\* under its own instance id; an impatient one joins channels, leaves the one
\* it is in, leaves the server, and disconnects. No call rejects. A socket
\* that disconnected is not taken into use again.
NextAsync ==
    \E s \in Sockets :
        \/ tasks[s] = <<>> /\ Connect(s)
        \/ ~Joined(s) /\ JoinServer(s, {InstanceOf(s)}, NoFail)
        \/ s \in Impatient /\ Joined(s) /\ BeginJoinChannel(s, VoiceChannels)
        \/ JoinChannelHget(s)
        \/ JoinChannelExec(s)
        \/ JoinChannelOccupants(s)
        \/ s \in Impatient /\ Joined(s) /\ BeginLeaveChannel(s, Current(s))
        \/ LeaveChannelExec(s)
        \/ LeaveChannelOccupants(s)
        \/ s \in Impatient /\ Joined(s) /\ BeginLeaveServer(s)
        \/ LeaveServerHget(s)
        \/ LeaveServerExec(s)
        \/ s \in Impatient /\ BeginDisconnect(s)
        \/ DisconnectLeaveChannel(s)
        \/ DisconnectOccupants(s)
        \/ DisconnectHget(s)
        \/ DisconnectExec(s)

SpecAsync == Init /\ [][NextAsync]_vars

\* Handlers that wait, voice: an impatient client joins channels, opens
\* transports in the channel it is in, and disconnects.
NextAsyncVoice ==
    \E s \in Sockets :
        \/ tasks[s] = <<>> /\ Connect(s)
        \/ ~Joined(s) /\ JoinServer(s, {InstanceOf(s)}, NoFail)
        \/ s \in Impatient /\ Joined(s) /\ BeginJoinChannel(s, VoiceChannels)
        \/ JoinChannelHget(s)
        \/ JoinChannelExec(s)
        \/ JoinChannelOccupants(s)
        \/ s \in Impatient /\ Joined(s) /\ BeginCreateWebRtcTransport(s, Current(s))
        \/ CreateRouterDone(s)
        \/ CreateTransportDone(s)
        \/ s \in Impatient /\ BeginDisconnect(s)
        \/ DisconnectLeaveChannel(s)
        \/ DisconnectOccupants(s)
        \/ DisconnectHget(s)
        \/ DisconnectExec(s)

SpecAsyncVoice == Init /\ [][NextAsyncVoice]_vars

\* Presence: sessions that joined, two of them under the same instance id or
\* not, naming any channel in a payload; no call rejects.
NextPresence ==
    \E s \in Sockets :
        \/ Connect(s)
        \/ JoinServer(s, InstanceIds(s), NoFail)
        \/ Joined(s) /\ LeaveServer(s, NoFail)
        \/ Joined(s) /\ JoinChannel(s, VoiceChannels, NoFail)
        \/ Joined(s) /\ LeaveChannel(s, VoiceChannels, NoFail)
        \/ Disconnect(s, NoFail)

SpecPresence == Init /\ [][NextPresence]_vars

\* The channel table: members that joined, every call of a channel handler
\* can reject.
NextChannels ==
    \E s \in Sockets :
        \/ Connect(s)
        \/ JoinServer(s, {InstanceOf(s)}, NoFail)
        \/ Disconnect(s, NoFail)
        \/ CreateChannel(s, Names \cup {Empty, Blank}, ParentIds, 0..3)
        \/ DeleteChannel(s, 0..3)
        \/ UpdateChannel(s, UpdateData, 0..2)

SpecChannels == Init /\ [][NextChannels]_vars

\* The channel tree: channels are created under every parent, moved and
\* deleted, and sessions join to be sent the tree.
NextTree ==
    \E s \in Sockets :
        \/ Connect(s)
        \/ JoinServer(s, {InstanceOf(s)}, NoFail)
        \/ CreateChannel(s, {"a"}, ParentIds, NoFail)
        \/ DeleteChannel(s, NoFail)
        \/ UpdateChannel(s, {d \in UpdateData : "name" \notin DOMAIN d}, NoFail)

SpecTree == Init /\ [][NextTree]_vars

\* The message history: members send messages as time passes and everyone
\* connected fetches pages of it.
NextMessages ==
    \/ Tick
    \/ \E s \in Sockets :
        \/ Connect(s)
        \/ JoinServer(s, {InstanceOf(s)}, NoFail)
        \/ CreateChannel(s, {"a"}, {None}, NoFail)
        \/ SendMessage(s, NoFail)
        \/ FetchMessages(s, 0..1)

SpecMessages == Init /\ [][NextMessages]_vars

\* Messages and roles: every call of a handler can reject, and a socket can
\* send an event before it joined.
NextRoles ==
    \E s \in Sockets :
        \/ Connect(s)
        \/ JoinServer(s, {InstanceOf(s)}, 0..5)
        \/ Disconnect(s, NoFail)
        \/ CreateChannel(s, {"a"}, {None}, NoFail)
        \/ SendMessage(s, 0..3)
        \/ GetAllUsers(s, 0..2)
        \/ GetRoles(s, 0..2)
        \/ AssignRole(s, 0..2)

SpecRoles == Init /\ [][NextRoles]_vars

\* Producers: sessions with their own id that join a channel, open a send
\* transport, produce, and stop being in the channel by each of the four
\* paths; no call rejects, and a client disconnects when nothing of its own
\* is pending; the first socket speaks and the other one listens. What the
\* server owes is the rest of a handler that waits for
\* the mediasoup worker: the event loop resumes it when the worker replied.
\* Nothing obliges a client to send an event.
Speakers == {1}

NextRetract ==
    \E s \in Sockets :
        \/ Connect(s)
        \/ ~Joined(s) /\ JoinServer(s, {InstanceOf(s)}, NoFail)
        \/ Joined(s) /\ JoinChannel(s, VoiceChannels, NoFail)
        \/ s \in Speakers /\ Joined(s) /\ BeginCreateWebRtcTransport(s, Current(s))
        \/ CreateRouterDone(s)
        \/ CreateTransportDone(s)
        \/ s \in Speakers /\ Joined(s) /\ Produce(s, NoFail)
        \/ s \in Speakers /\ Joined(s) /\ CloseProducer(s)
        \/ Joined(s) /\ LeaveChannel(s, Current(s), NoFail)
        \/ InFlight(s) = {} /\ Disconnect(s, NoFail)

\* the steps of the server that no client triggers
WorkerReplied == \E s \in Sockets : CreateRouterDone(s) \/ CreateTransportDone(s)

SpecRetract == Init /\ [][NextRetract]_vars /\ WF_vars(WorkerReplied)

\* ------------------------------------------------------------- properties
IsPrefix(a, b) == Len(a) <= Len(b) /\ \A i \in 1..Len(a) : a[i] = b[i]

\* how often the run delivered `op` about producer `pid` to socket t
Received(run, t, op, pid) ==
    Cardinality({i \in 1..Len(run.trace) :
                   /\ run.trace[i].op = op /\ run.trace[i].pid = pid
                   /\ t \in run.trace[i].to})

AckedOk(run) == Len(run.acks) = 1 /\ run.acks[1].success

\* the session of socket s on the channel it is in, and its open producer
SessionOf(s) == getSession(World, sdata[s].currentChannelId, sdata[s].userId)

HasOpenProducer(s) ==
    /\ conn[s] /\ sdata[s].serverId # None /\ sdata[s].currentChannelId # None
    /\ IsSess(SessionOf(s)) /\ SessionOf(s).producer # 0

\* what the handler itself did, without the callbacks mediasoup ran for it
OwnSteps(run) ==
    LET own == SelectSeq(run.trace, LAMBDA e : e.room # <<"socket", "producerclose">>)
    IN  [i \in 1..Len(own) |-> <<own[i].op, own[i].room, own[i].user>>]

DisconnectOrder(s) ==
    LET d == sdata[s]
    IN  << <<"PRODUCER_CLOSED", ChannelRoom(d.currentChannelId), d.userId>>,
           <<"presence.leaveChannel", ChannelRoom(d.currentChannelId), d.userId>>,
           <<"PRESENCE_UPDATE", ServerRoom(d.serverId), d.currentChannelId>>,
           <<"presence.leaveServer", ServerRoom(d.serverId), d.userId>>,
           <<"USER_LEFT", ServerRoom(d.serverId), d.userId>> >>

\* C1: when a session that is in server s and channel c with an open producer
\* disconnects, the handler's effects come in this order and in no other:
\* PRODUCER_CLOSED to channel:c, the channel presence of the user cleared,
\* PRESENCE_UPDATE for c to server:s without the user among the occupants,
\* the server presence cleared, USER_LEFT to server:s.  A run in which a
\* presence call rejects stops somewhere in this order; a run in which none
\* rejects makes all of it.
C1_DisconnectOrder ==
    \A s \in Sockets, fail \in 0..3 :
        HasOpenProducer(s) =>
            LET r == DisconnectRun(World, s, fail)
                d == sdata[s]
            IN  /\ IsPrefix(OwnSteps(r.run), DisconnectOrder(s))
                /\ \A i \in 1..Len(r.run.trace) :
                      r.run.trace[i].op = "PRESENCE_UPDATE"
                          => d.userId \notin r.run.trace[i].occ
                /\ fail = 0 =>
                      /\ OwnSteps(r.run) = DisconnectOrder(s)
                      /\ d.userId \notin r.presChannel[d.currentChannelId]
                      /\ d.userId \notin r.presServer[d.serverId]

\* a session with an open producer whose disconnect makes the five effects,
\* with another socket in the channel room to hear the first
C1_Witness ==
    \E s \in Sockets :
        /\ HasOpenProducer(s)
        /\ sdata[s].userId \in presChannel[sdata[s].currentChannelId]
        /\ \E t \in Sockets \ {s} : ChannelRoom(sdata[s].currentChannelId) \in rooms[t]
        /\ Len(OwnSteps(DisconnectRun(World, s, 0).run)) = 5

\* the run of a PRODUCE that comes to its acknowledgement
CanProduce(s, transportId) ==
    /\ conn[s] /\ Cardinality(producers) < MaxProducers
    /\ AckedOk(ProduceRun(World, s, transportId, 0).run)

\* C2: when a session A in channel c completes PRODUCE, every other socket
\* subscribed to channel:c receives exactly one NEW_PRODUCER with the id of
\* A's new producer, and A receives none.
C2_NewProducerOnce ==
    \A s \in Sockets, transportId \in 1..MaxTransports :
        CanProduce(s, transportId) =>
            LET r == ProduceRun(World, s, transportId, 0)
                c == sdata[s].currentChannelId
                producerId == r.vsess[c][sdata[s].userId].producer
            IN  /\ producerId \in {p.id : p \in r.producers}
                /\ producerId \notin {p.id : p \in producers}
                /\ Received(r.run, s, "NEW_PRODUCER", producerId) = 0
                /\ \A t \in Sockets \ {s} :
                      Received(r.run, t, "NEW_PRODUCER", producerId) =
                          (IF ChannelRoom(c) \in rooms[t] THEN 1 ELSE 0)

C2_Witness ==
    \E s \in Sockets, transportId \in 1..MaxTransports, t \in Sockets :
        /\ t # s /\ CanProduce(s, transportId)
        /\ ChannelRoom(sdata[s].currentChannelId) \in rooms[t]
        /\ Received(ProduceRun(World, s, transportId, 0).run, t, "NEW_PRODUCER",
                    FreshId({p.id : p \in producers})) = 1

\* C3: when a session A with an open producer disconnects, every other
\* session B in the channel receives exactly one PRODUCER_CLOSED for A's
\* producer id, whether or not B holds a consumer of it.
C3_ProducerClosedOnce ==
    \A s \in Sockets :
        HasOpenProducer(s) =>
            LET r == DisconnectRun(World, s, 0)
            IN  \A t \in Sockets \ {s} :
                   ChannelRoom(sdata[s].currentChannelId) \in rooms[t]
                       => Received(r.run, t, "PRODUCER_CLOSED", SessionOf(s).producer) = 1

\* a channel row can be inserted: the pool of ids has a free one
CanCreate == \E c \in ChannelIds : chanRows[c] = NoRow

\* C4: every ack-bearing event is acknowledged at most once on every path of
\* its handler, the paths where a query or broadcast fails after the success
\* acknowledgement included.
C4_AckAtMostOnce ==
    \A s \in Sockets :
        conn[s] =>
            /\ \A name \in Names, parentId \in ParentIds, fail \in 0..3 :
                  CanCreate =>
                      Len(CreateChannelRun(World, s, "s1", name, parentId, fail).run.acks) <= 1
            /\ \A channelId \in ChannelIds, fail \in 0..3 :
                  Len(DeleteChannelRun(World, s, channelId, fail).run.acks) <= 1
            /\ \A channelId \in ChannelIds, data \in UpdateData, fail \in 0..2 :
                  Len(UpdateChannelRun(World, s, channelId, data, fail).run.acks) <= 1
            /\ \A channelId \in VoiceChannels, fail \in 0..2 :
                  Len(JoinChannelRun(World, s, channelId, fail).run.acks) <= 1

\* the run was answered with one negative acknowledgement
AckedFalse(run) == Len(run.acks) = 1 /\ ~run.acks[1].success

SessionJoined(s) == Truthy(sdata[s].userId) /\ Truthy(sdata[s].serverId)

\* C5: when a store, presence or SFU call rejects inside the handler of an
\* ack-bearing event (the role lookup of the admin events' permission check
\* included), the caller gets an acknowledgement with success=false and the
\* exception does not escape the handler.
C5_ErrorsAreAcked ==
    \A s \in Sockets, fail \in 1..2 :
        (conn[s] /\ AdminFails(s, fail)) =>
            /\ \A userId \in Users, roleId \in Roles, action \in {"add", "remove"} :
                  LET r == AssignRoleRun(World, s, userId, roleId, action, fail)
                  IN  AckedFalse(r.run) /\ ~r.run.escaped
            /\ LET r == GetAllUsersRun(World, s, "s1", fail)
               IN  AckedFalse(r.run) /\ ~r.run.escaped
            /\ LET r == GetRolesRun(World, s, "s1", fail)
               IN  AckedFalse(r.run) /\ ~r.run.escaped

\* the session of socket s holds the flag (or ADMIN) on its server
Holds(s, flag) ==
    /\ SessionJoined(s)
    /\ hasPermission(getUserPermissions(World, sdata[s].userId, sdata[s].serverId),
                     flag)

\* the run neither changed the channel table nor broadcast a tree
TableUntouched(r) ==
    /\ r.chanRows = chanRows
    /\ \A i \in 1..Len(r.run.trace) : r.run.trace[i].op # "CHANNEL_TREE_UPDATE"

\* C6: CREATE_CHANNEL changes the channel table only for a sender whose mask
\* has CREATE_CHANNEL or ADMIN, DELETE_CHANNEL and UPDATE_CHANNEL only for one
\* whose mask has MANAGE_CHANNELS or ADMIN; a sender without the flag gets a
\* negative acknowledgement and the table and the broadcast tree stay.
C6_ChannelWritesGated ==
    \A s \in Sockets :
        (conn[s] /\ SessionJoined(s)) =>
            /\ ~Holds(s, CREATE_CHANNEL) =>
                  \A name \in Names, parentId \in ParentIds :
                      CanCreate =>
                          LET r == CreateChannelRun(World, s, "s1", name, parentId, 0)
                          IN  AckedFalse(r.run) /\ TableUntouched(r)
            /\ ~Holds(s, MANAGE_CHANNELS) =>
                  /\ \A channelId \in ChannelIds :
                        LET r == DeleteChannelRun(World, s, channelId, 0)
                        IN  AckedFalse(r.run) /\ TableUntouched(r)
                  /\ \A channelId \in ChannelIds, data \in UpdateData :
                        LET r == UpdateChannelRun(World, s, channelId, data, 0)
                        IN  AckedFalse(r.run) /\ TableUntouched(r)

\* how often the run emitted ERROR with the code to socket t
Errors(run, t, code) ==
    Cardinality({i \in 1..Len(run.trace) :
                   /\ run.trace[i].op = "ERROR" /\ run.trace[i].user = code
                   /\ t \in run.trace[i].to})

\* the run stored no message and broadcast none
NoMessage(r) ==
    /\ r.msgRows = msgRows
    /\ \A i \in 1..Len(r.run.trace) : r.run.trace[i].op # "MESSAGE_RECEIVED"

\* C7 as stated: SEND_MESSAGE stores and broadcasts only for a sender whose
\* mask has SEND_MESSAGES or ADMIN at the time of the check; otherwise it
\* acknowledges success=false, emits ERROR PERMISSION_DENIED to the sender and
\* leaves the message table as it was.
C7_DenialAlwaysSignalled ==
    \A s \in Sockets, channelId \in ChannelIds, content \in Contents :
        (conn[s] /\ SessionJoined(s)) =>
            LET r == SendMessageRun(World, s, channelId, content, 0)
            IN  /\ ~NoMessage(r) => Holds(s, SEND_MESSAGES)
                /\ ~Holds(s, SEND_MESSAGES) =>
                      /\ AckedFalse(r.run) /\ NoMessage(r)
                      /\ Errors(r.run, s, "PERMISSION_DENIED") = 1

\* C7, amended: SEND_MESSAGE stores and broadcasts only for a sender whose
\* mask has SEND_MESSAGES or ADMIN at the time of the check; otherwise it
\* acknowledges success=false and leaves the message table as it was, and it
\* emits ERROR PERMISSION_DENIED to the sender when the check is made and
\* answered: the content is not empty after trimming, the session has joined
\* and the role lookup returns.
C7_SendMessageGated ==
    \A s \in Sockets, channelId \in ChannelIds, content \in Contents, fail \in 0..3 :
        conn[s] =>
            LET r == SendMessageRun(World, s, channelId, content, fail)
            IN  /\ ~NoMessage(r) => Holds(s, SEND_MESSAGES)
                /\ ~Holds(s, SEND_MESSAGES) =>
                      /\ AckedFalse(r.run) /\ NoMessage(r) /\ ~r.run.escaped
                      /\ Errors(r.run, s, "PERMISSION_DENIED") =
                            (IF SessionJoined(s) /\ Trim(content) # Empty /\ fail # 1
                             THEN 1 ELSE 0)

\* a joined session without the flag whose message to an existing channel is
\* refused with the ERROR event, next to a session whose message is stored
C7_Witness ==
    \E s \in Sockets, t \in Sockets, channelId \in ChannelIds :
        /\ conn[s] /\ SessionJoined(s) /\ ~Holds(s, SEND_MESSAGES)
        /\ chanRows[channelId] # NoRow
        /\ Errors(SendMessageRun(World, s, channelId, "hi", 0).run, s,
                  "PERMISSION_DENIED") = 1
        /\ conn[t] /\ Holds(t, SEND_MESSAGES)
        /\ ~NoMessage(SendMessageRun(World, t, channelId, "hi", 0))

\* C8: ASSIGN_ROLE adds or removes an assignment only for a caller whose mask
\* has MANAGE_ROLES or ADMIN; a caller without the flag is acknowledged with
\* success=false and "Permission denied", the assignments stay, and
\* GET_ALL_USERS and GET_ROLES return no data.
DeniedAck(run) ==
    /\ AckedFalse(run) /\ run.acks[1].error = "Permission denied"
    /\ run.acks[1].data = {}

C8_RoleWritesGated ==
    \A s \in Sockets, fail \in 0..1 :
        (conn[s] /\ ~Holds(s, MANAGE_ROLES)) =>
            /\ \A userId \in Users, roleId \in Roles, action \in {"add", "remove"} :
                  LET r == AssignRoleRun(World, s, userId, roleId, action, fail)
                  IN  DeniedAck(r.run) /\ r.userRoles = userRoles
            /\ DeniedAck(GetAllUsersRun(World, s, "s1", fail).run)
            /\ DeniedAck(GetRolesRun(World, s, "s1", fail).run)

\* the run left the SFU as it was
SfuUntouched(r) ==
    /\ r.routers = routers /\ r.sessMaps = sessMaps /\ r.vsess = vsess
    /\ r.transports = transports /\ r.producers = producers
    /\ r.consumers = consumers

\* C9: a session whose mask lacks CONNECT (and ADMIN) gets no router
\* capabilities and no transport, and one whose mask lacks SPEAK (and ADMIN)
\* creates no producer: the request is negatively acknowledged and the SFU
\* state stays.
C9_VoiceGated ==
    \A s \in Sockets :
        (conn[s] /\ SessionJoined(s)) =>
            /\ ~Holds(s, CONNECT) =>
                  \A channelId \in VoiceChannels :
                      /\ LET r == GetRouterCapabilitiesRun(World, s, channelId, 0)
                         IN  AckedFalse(r.run) /\ SfuUntouched(r)
                      /\ \A direction \in {"send", "recv"} :
                            LET r == CreateWebRtcTransportRun(World, s, channelId,
                                                              direction, 0)
                            IN  AckedFalse(r.run) /\ SfuUntouched(r)
            /\ ~Holds(s, SPEAK) =>
                  \A transportId \in 1..MaxTransports :
                      LET r == ProduceRun(World, s, transportId, 0)
                      IN  AckedFalse(r.run) /\ SfuUntouched(r)

\* the run changed no row, no presence key, no room and no SFU state
NothingChanged(r) ==
    /\ r.userRows = userRows /\ r.userRoles = userRoles
    /\ r.chanRows = chanRows /\ r.msgRows = msgRows
    /\ r.presServer = presServer /\ r.presChannel = presChannel
    /\ r.presUser = presUser
    /\ r.rooms = rooms
    /\ SfuUntouched(r)

\* the run was refused as NotAuthenticated
Refused(r, s) ==
    /\ \A i \in 1..Len(r.run.acks) : ~r.run.acks[i].success
    /\ Errors(r.run, s, "NOT_AUTHENTICATED") = 1

\* C10: an event other than USER_JOIN_SERVER from a session that has not
\* joined (no userId, no serverId) is refused as NotAuthenticated and changes
\* no durable row, no presence key, no room membership and no SFU state.
C10_UnjoinedRefused ==
    \A s \in Sockets :
        (conn[s] /\ sdata[s].userId = None /\ sdata[s].serverId = None) =>
            /\ \A channelId \in VoiceChannels :
                  /\ LET r == JoinChannelRun(World, s, channelId, 0)
                     IN  Refused(r, s) /\ NothingChanged(r)
                  /\ LET r == GetRouterCapabilitiesRun(World, s, channelId, 0)
                     IN  Refused(r, s) /\ NothingChanged(r)
            /\ CanCreate =>
                  LET r == CreateChannelRun(World, s, "s1", "a", None, 0)
                  IN  Refused(r, s) /\ NothingChanged(r)

\* bit f of the mask m, for a flag f of one bit
BitSet(m, f) == (m \div f) % 2 = 1

\* C11: for every mask m and flag f of the nine flags, hasPermission(m, f) is
\* true exactly when m has the ADMIN bit or the bit of f; the mask ADMIN
\* alone passes every flag and the zero mask passes none.
C11_HasPermissionLaw ==
    result # {} =>
        /\ result = {BitSet(probe.m, ADMIN) \/ BitSet(probe.m, probe.f)}
        /\ result = {(BitOr(probe.m, ADMIN) = probe.m)
                        \/ (BitAnd(probe.m, probe.f) = probe.f)}
        /\ probe.m = ADMIN => result = {TRUE}
        /\ probe.m = 0 => result = {FALSE}

\* the mask ADMIN alone was asked for a flag it does not hold, and passed
C11_Witness == probe.m = ADMIN /\ probe.f = KICK_USER /\ result = {TRUE}

\* C12: in every reachable state a connected session whose currentChannelId
\* is c has its user id in the presence set of c and in the presence set of
\* no other channel.
C12_ChannelPresenceMatches ==
    \A s \in Sockets :
        (/\ conn[s] /\ sdata[s].currentChannelId # None
         /\ ChannelRoom(sdata[s].currentChannelId) \in rooms[s]) =>
            /\ sdata[s].userId \in presChannel[sdata[s].currentChannelId]
            /\ \A c \in VoiceChannels \ {sdata[s].currentChannelId} :
                  sdata[s].userId \notin presChannel[c]

\* the user ids of the connected sessions of the server: the sockets whose
\* serverId it is and that are in its room
SessionsOf(serverId) ==
    {sdata[s].userId : s \in {x \in Sockets : /\ conn[x]
                                                /\ sdata[x].serverId = serverId
                                                /\ ServerRoom(serverId) \in rooms[x]}}

\* C13: between handlers the presence set of server s is the set of the user
\* ids of the connected sessions whose serverId is s.
C13_ServerPresenceMatches ==
    \A serverId \in ServerIds : presServer[serverId] = SessionsOf(serverId)

\* C14: when one step of the disconnect cleanup fails (clearing the channel
\* presence, reading the occupants, clearing the server presence), the steps
\* after it still run: the server presence is still cleared and USER_LEFT is
\* still broadcast to the server room.
C14_DisconnectContinues ==
    \A s \in Sockets, fail \in 1..3 :
        (/\ conn[s] /\ sdata[s].serverId # None
         /\ fail \in 1..2 => sdata[s].currentChannelId # None) =>
            LET r == DisconnectRun(World, s, fail)
            IN  /\ \E i \in 1..Len(r.run.trace) :
                      /\ r.run.trace[i].op = "USER_LEFT"
                      /\ r.run.trace[i].room = ServerRoom(sdata[s].serverId)
                /\ fail # 3 => sdata[s].userId \notin r.presServer[sdata[s].serverId]

\* the ids of a list of nodes, and whether the list ascends by position
Ids(nodes) == {nodes[i].id : i \in DOMAIN nodes}

Ascending(nodes) ==
    \A i, j \in DOMAIN nodes : i < j => nodes[i].position <= nodes[j].position

\* the ids of the nodes of a tree: its roots and what hangs below them
RECURSIVE Below(_, _, _)
Below(tree, S, n) ==
    IF n = 0 THEN S
    ELSE Below(tree, S \cup UNION {Ids(tree.children[c]) : c \in S}, n - 1)

TreeNodes(tree) == Below(tree, Ids(tree.roots), MaxChannels)

\* the trees a run sent in CHANNEL_TREE_UPDATE to the room
TreesTo(run, room) ==
    {CHOOSE tree \in run.trace[i].occ : TRUE :
        i \in {j \in DOMAIN run.trace :
                 /\ run.trace[j].op = "CHANNEL_TREE_UPDATE"
                 /\ run.trace[j].room = room}}

Succeeded(run) == Len(run.acks) >= 1 /\ run.acks[1].success

\* the place of channel c with parent parentId in a tree: among the children
\* of its parent, or among the roots, in a list that ascends by position
PlacedUnder(tree, c, parentId) ==
    IF parentId = None
    THEN c \in Ids(tree.roots) /\ Ascending(tree.roots)
    ELSE /\ parentId \in TreeNodes(tree)
         /\ c \in Ids(tree.children[parentId])
         /\ Ascending(tree.children[parentId])

\* C15: after a successful CREATE_CHANNEL of channel c with parent p on a
\* server, the CHANNEL_TREE_UPDATE the handler broadcasts to the server room
\* holds c among the children of p (among the roots when p is null), and that
\* list ascends by position.
C15_CreatedChannelInTree ==
    \A s \in Sockets, serverId \in ServerIds, name \in Names,
       parentId \in ParentIds, fail \in 0..3 :
        (conn[s] /\ CanCreate) =>
            LET r == CreateChannelRun(World, s, serverId, name, parentId, fail)
            IN  Succeeded(r.run) =>
                    \A tree \in TreesTo(r.run, ServerRoom(serverId)) :
                        PlacedUnder(tree, NewChannelId(World), parentId)

\* a channel is created under a parent that has a child already, and the
\* tree that is broadcast lists both children
C15_Witness ==
    \E s \in Sockets, parentId \in ParentIds \ {None} :
        /\ conn[s] /\ CanCreate
        /\ LET r == CreateChannelRun(World, s, "s1", "a", parentId, 0)
           IN  /\ Succeeded(r.run)
               /\ \E tree \in TreesTo(r.run, ServerRoom("s1")) :
                     /\ Len(tree.children[parentId]) = 2
                     /\ PlacedUnder(tree, NewChannelId(World), parentId)

\* every tree a run sent, to a room or to one socket
AllTrees(run) ==
    {CHOOSE tree \in run.trace[i].occ : TRUE :
        i \in {j \in DOMAIN run.trace : run.trace[j].op = "CHANNEL_TREE_UPDATE"}}

ChildrenOf(c) == {k \in ChannelIds : chanRows[k] # NoRow /\ chanRows[k].parentId = c}

\* the trees of the run hold no node c and hold every channel of kids as a root
GoneAndRoots(run, c, kids) ==
    \A tree \in AllTrees(run) :
        /\ c \notin TreeNodes(tree)
        /\ \A k \in kids : k \in Ids(tree.roots)

\* the events that send a tree after world w: USER_JOIN_SERVER, UPDATE_CHANNEL,
\* DELETE_CHANNEL of another channel, CREATE_CHANNEL of a channel with a new id
TreesAfterDelete(w, c, kids) ==
    \A s \in Sockets :
        w.conn[s] =>
            /\ \A fail \in 0..5 :
                  GoneAndRoots(JoinServerRun(w, s, InstanceOf(s), "s1", fail).run, c, kids)
            /\ \A channelId \in ChannelIds, data \in UpdateData, fail \in 0..2 :
                  GoneAndRoots(UpdateChannelRun(w, s, channelId, data, fail).run, c, kids)
            /\ \A channelId \in ChannelIds \ {c}, fail \in 0..3 :
                  GoneAndRoots(DeleteChannelRun(w, s, channelId, fail).run,
                               c, kids \ {channelId})
            /\ \A name \in Names, parentId \in {None} \cup ChannelsOf(w, "s1"),
                  fail \in 0..3 :
                  NewChannelId(w) # c =>
                      GoneAndRoots(CreateChannelRun(w, s, "s1", name, parentId, fail).run,
                                   c, kids)

\* C16: after a successful DELETE_CHANNEL of channel c, the tree the handler
\* broadcasts and every tree sent by the next event (a CHANNEL_TREE_UPDATE
\* broadcast or the initial tree of USER_JOIN_SERVER) hold no node with id c,
\* and every channel that was a child of c is a root node of them.
C16_DeletedChannelGone ==
    \A s \in Sockets, c \in ChannelIds, fail \in 0..3 :
        (conn[s] /\ chanRows[c] # NoRow) =>
            LET r == DeleteChannelRun(World, s, c, fail)
            IN  Succeeded(r.run) =>
                    /\ GoneAndRoots(r.run, c, ChildrenOf(c))
                    /\ TreesAfterDelete(r, c, ChildrenOf(c))

\* a channel with a child is deleted: the broadcast tree and the tree of the
\* next USER_JOIN_SERVER list the child as a root
C16_Witness ==
    \E s \in Sockets, c \in ChannelIds :
        /\ conn[s] /\ chanRows[c] # NoRow /\ ChildrenOf(c) # {}
        /\ LET r == DeleteChannelRun(World, s, c, 0)
               j == JoinServerRun(r, s, InstanceOf(s), "s1", 0)
           IN  /\ Succeeded(r.run)
               /\ AllTrees(r.run) # {} /\ AllTrees(j.run) # {}
               /\ GoneAndRoots(r.run, c, ChildrenOf(c))
               /\ GoneAndRoots(j.run, c, ChildrenOf(c))

\* the page a successful FETCH_MESSAGES run acknowledged
PageOf(run) == CHOOSE page \in run.acks[1].data : TRUE

Range(seq) == {seq[i] : i \in DOMAIN seq}

LimitOf(payload) ==
    IF "limit" \in DOMAIN payload THEN payload.limit ELSE DefaultLimit

\* C17: FETCH_MESSAGES(channelId, before, limit) returns at most
\* min(limit, 100) messages (limit defaulting to 50), all of the channel and
\* all created strictly before `before` when it is given; they are the newest
\* messages that pass the filter, in ascending order of createdAt.
C17_FetchPage ==
    \A s \in Sockets, payload \in FetchPayloads, tie \in BOOLEAN :
        conn[s] =>
            LET r == FetchMessagesRun(World, s, payload, tie, 0)
                page == PageOf(r.run)
            IN  /\ AckedOk(r.run)
                /\ Len(page) > 0 => Len(page) <= Min(LimitOf(payload), MaxTake)
                /\ \A m \in Range(page) :
                      /\ m.channelId = payload.channelId
                      /\ "before" \in DOMAIN payload => m.createdAt < payload.before
                /\ Range(page) \subseteq Range(msgRows)
                /\ \A m \in FetchWhere(World, payload) \ Range(page) :
                      \A q \in Range(page) : m.createdAt <= q.createdAt
                /\ \A i, j \in DOMAIN page :
                      i < j => page[i].createdAt <= page[j].createdAt

\* C18: paging backwards loses nothing: after a page of limit n, the page
\* fetched with `before` set to the createdAt of the first message of that
\* page and limit n is disjoint from it and holds the n messages right before
\* it, so that no stored message of the channel older than the first page is
\* left out between the two (also when messages share a createdAt).
C18_PagingLosesNothing ==
    \A s \in Sockets, c \in ChannelIds, n \in 1..MaxMessages,
       tie1 \in BOOLEAN, tie2 \in BOOLEAN :
        conn[s] =>
            LET first == PageOf(FetchMessagesRun(World, s,
                            [channelId |-> c, limit |-> n], tie1, 0).run)
                second == PageOf(FetchMessagesRun(World, s,
                            [channelId |-> c, limit |-> n,
                             before |-> first[1].createdAt], tie2, 0).run)
                rest == FetchWhere(World, [channelId |-> c]) \ Range(first)
            IN  first # <<>> =>
                    /\ Range(first) \cap Range(second) = {}
                    /\ Len(second) = Min(n, Cardinality(rest))
                    /\ Range(second) \subseteq rest
                    /\ \A m \in rest \ Range(second) :
                          \A q \in Range(second) : m.createdAt <= q.createdAt

\* the broadcasts of MESSAGE_RECEIVED of a run
Broadcasts(run) ==
    {run.trace[i] : i \in {j \in DOMAIN run.trace :
                             run.trace[j].op = "MESSAGE_RECEIVED"}}

\* a string without surrounding white space that is not empty
TrimmedNonEmpty(str) == str \notin {Empty, Blank, Padded}

\* C19: SEND_MESSAGE persists, then broadcasts: every MESSAGE_RECEIVED carries
\* a message that is stored, with trimmed non-empty content, for a channel
\* that existed when the handler looked it up; a SEND_MESSAGE whose content is
\* empty after trimming or whose channel does not exist is acknowledged with
\* success=false, stores nothing and broadcasts nothing.
C19_PersistThenBroadcast ==
    \A s \in Sockets, channelId \in ChannelIds, content \in Contents, fail \in 0..3 :
        conn[s] =>
            LET r == SendMessageRun(World, s, channelId, content, fail)
            IN  /\ \A e \in Broadcasts(r.run) :
                      /\ chanRows[channelId] # NoRow
                      /\ \E m \in Range(r.msgRows) \ Range(msgRows) :
                            /\ m.id = e.pid /\ m.userId = e.user
                            /\ e.occ = {m.channelId} /\ m.channelId = channelId
                            /\ TrimmedNonEmpty(m.content)
                /\ Len(r.msgRows) > Len(msgRows) => TrimmedNonEmpty(r.msgRows[Len(r.msgRows)].content)
                /\ (content \in {Empty, Blank} \/ chanRows[channelId] = NoRow) =>
                      AckedFalse(r.run) /\ NoMessage(r)

\* a padded message is stored trimmed and broadcast to a member of the server
\* room, and a blank message of the same sender is refused
C19_Witness ==
    \E s \in Sockets, t \in Sockets, channelId \in ChannelIds :
        /\ conn[s] /\ s # t
        /\ LET r == SendMessageRun(World, s, channelId, Padded, 0)
           IN  /\ AckedOk(r.run)
               /\ \E e \in Broadcasts(r.run) : t \in e.to
               /\ r.msgRows[Len(r.msgRows)].content = "hi"
        /\ AckedFalse(SendMessageRun(World, s, channelId, Blank, 0).run)

\* ASSIGN_ROLE applied twice in a row by socket s, no store call rejecting
AssignOnce(s, userId, roleId, action) ==
    AssignRoleRun(World, s, userId, roleId, action, 0)

AssignTwice(s, userId, roleId, action) ==
    AssignRoleRun(AssignOnce(s, userId, roleId, action), s, userId, roleId, action, 0)

\* both calls acknowledge success; after them the assignment is there once
\* (add) or not at all (remove), as after the first call, and every other
\* assignment is as it was
TwiceAsOnce(s, userId, roleId, action) ==
    LET r1 == AssignOnce(s, userId, roleId, action)
        r2 == AssignTwice(s, userId, roleId, action)
    IN  /\ AckedOk(r1.run) /\ AckedOk(r2.run)
        /\ r2.userRoles = r1.userRoles
        /\ (<<userId, roleId>> \in r2.userRoles) = (action = "add")
        /\ r2.userRoles \ {<<userId, roleId>>} = userRoles \ {<<userId, roleId>>}

\* the session of socket s holds the flag after its first ASSIGN_ROLE
HoldsAfter(s, userId, roleId, action, flag) ==
    hasPermission(getUserPermissions(AssignOnce(s, userId, roleId, action),
                                     sdata[s].userId, sdata[s].serverId), flag)

ErrorSentTo(run, t) ==
    \E i \in DOMAIN run.trace : run.trace[i].op = "ERROR" /\ t \in run.trace[i].to

\* C21: when the handler of an event without acknowledgement fails
\* (USER_LEAVE_SERVER, USER_LEAVE_CHANNEL, CLOSE_PRODUCER), the server emits
\* an ERROR event to the session that sent the event.
C21_FailureEmitsError ==
    \A s \in Sockets :
        (conn[s] /\ SessionJoined(s)) =>
            /\ ErrorSentTo(LeaveServerRun(World, s, sdata[s].serverId, 1).run, s)
            /\ \A channelId \in VoiceChannels, fail \in 1..2 :
                  sdata[s].currentChannelId = channelId =>
                      ErrorSentTo(LeaveChannelRun(World, s, channelId, fail).run, s)

\* in world w the channel has no voice session
NoVoiceSession(w, channelId) ==
    \A u \in UserKeys : ~IsSess(getSession(w, channelId, u))

\* C25: a channel's router is destroyed when its last user leaves: after a
\* USER_LEAVE_CHANNEL or a disconnect cleanup completes, a channel without a
\* voice session has no router, also when the leaving user only asked for the
\* router capabilities and never created a transport.
C25_RouterGoesWithLastUser ==
    \A s \in Sockets :
        (conn[s] /\ SessionJoined(s) /\ sdata[s].currentChannelId \in VoiceChannels) =>
            LET c == sdata[s].currentChannelId
                left == LeaveChannelRun(World, s, c, 0)
                gone == DisconnectRun(World, s, 0)
            IN  /\ NoVoiceSession(left, c) => c \notin left.routers
                /\ NoVoiceSession(gone, c) => c \notin gone.routers

\* following parentId from channel c ends within n steps at a null parentId
\* or at an id that names no channel
RECURSIVE WalkEnds(_, _)
WalkEnds(c, n) ==
    IF c = None \/ chanRows[c] = NoRow THEN TRUE
    ELSE IF n = 0 THEN FALSE
    ELSE WalkEnds(chanRows[c].parentId, n - 1)

\* C26: in every reachable state of the channel table, following parentId
\* from any channel ends after finitely many steps at a channel with null
\* parentId or at an id that names no channel: the parent graph has no cycle.
C26_ParentGraphAcyclic ==
    \A c \in ChannelIds : WalkEnds(c, MaxChannels)

\* three channels in a chain, the walk from the innermost takes two steps
C26_Witness ==
    \E a, b, c \in ChannelIds :
        /\ chanRows[a] # NoRow /\ chanRows[b] # NoRow /\ chanRows[c] # NoRow
        /\ chanRows[a].parentId = b /\ chanRows[b].parentId = c
        /\ chanRows[c].parentId = None
        /\ WalkEnds(a, MaxChannels)

\* C27: in every reachable state of the channel table no two channels with
\* the same serverId and the same parentId have the same position, also after
\* UPDATE_CHANNEL with an explicit position and after DELETE_CHANNEL made the
\* children of the deleted channel roots.
C27_SiblingPositionsDistinct ==
    \A a, b \in ChannelIds :
        (/\ a # b /\ chanRows[a] # NoRow /\ chanRows[b] # NoRow
         /\ chanRows[a].serverId = chanRows[b].serverId
         /\ chanRows[a].parentId = chanRows[b].parentId) =>
            chanRows[a].position # chanRows[b].position

\* the list is ordered by position and, among equal positions, by id
OrderedByPositionThenId(nodes) ==
    \A i, j \in DOMAIN nodes :
        i < j => \/ nodes[i].position < nodes[j].position
                 \/ /\ nodes[i].position = nodes[j].position
                    /\ PoolIndex(nodes[i].id) < PoolIndex(nodes[j].id)

\* the lists that hold the same rows as `rows`, in any order
Reorderings(rows) ==
    {other \in [DOMAIN rows -> Range(rows)] : Range(other) = Range(rows)}

\* C28: buildChannelTree orders the roots and every children list by
\* ascending position and, among nodes of equal position, by id, so that the
\* forest depends only on the set of the rows and not on their order.
C28_TreeOrderDeterministic ==
    \A tree \in result :
        /\ OrderedByPositionThenId(tree.roots)
        /\ \A c \in DOMAIN tree.children : OrderedByPositionThenId(tree.children[c])
        /\ \A other \in Reorderings(probe) : buildChannelTree(other) = tree

\* how often the id is a node of the tree's lists
Occurrences(tree, c) ==
    Cardinality({i \in DOMAIN tree.roots : tree.roots[i].id = c})
      + Cardinality({<<p, i>> \in UNION {{<<q, k>> : k \in DOMAIN tree.children[q]} :
                                           q \in DOMAIN tree.children} :
                        tree.children[p][i].id = c})

AllNodes(tree) ==
    Range(tree.roots) \cup UNION {Range(tree.children[c]) : c \in DOMAIN tree.children}

\* C29: for acyclic rows with distinct ids buildChannelTree places every row
\* exactly once in the forest: as a root iff its parentId is null or names no
\* row of the input, else as a child of the node its parentId names; the
\* occupants of every node are empty.
C29_EveryRowPlacedOnce ==
    \A tree \in result :
        LET ids == {probe[i].id : i \in DOMAIN probe}
        IN  /\ \A i \in DOMAIN probe :
                  LET row == probe[i]
                  IN  /\ Occurrences(tree, row.id) = 1
                      /\ row.id \in TreeNodes(tree)
                      /\ (row.id \in Ids(tree.roots)) =
                            (row.parentId = None \/ row.parentId \notin ids)
                      /\ row.id \notin Ids(tree.roots) =>
                            row.id \in Ids(tree.children[row.parentId])
            /\ {node.id : node \in AllNodes(tree)} = ids
            /\ \A node \in AllNodes(tree) : node.occupants = <<>>

\* three rows: a root, a child of it and a row whose parent is no row
C29_Witness ==
    \E tree \in result :
        /\ Len(probe) = 3
        /\ \E i, j, k \in DOMAIN probe :
              /\ probe[i].parentId = None
              /\ probe[j].parentId = probe[i].id
              /\ probe[k].parentId = Dangling
        /\ Len(tree.roots) = 2
        /\ \E c \in DOMAIN tree.children : Len(tree.children[c]) = 1

\* presence.joinChannel(u, c) and then presence.leaveServer(u, s)
JoinThenLeaveServer(userId, channelId, serverId) ==
    PresenceLeaveServer(PresenceJoinChannel(World, userId, channelId),
                        userId, serverId)

\* joinServer registered the user on the server
Registered(userId, serverId) ==
    userId \in presServer[serverId] /\ presUser[userId].serverId = serverId

\* C30: for a user u registered on server s with joinServer,
\* presence.joinChannel(u, c) followed at once by presence.leaveServer(u, s)
\* leaves u absent from the presence set of s and from that of c, and
\* without presence hash.
C30_JoinThenLeaveClears ==
    \A userId \in Users, channelId \in VoiceChannels, serverId \in ServerIds :
        Registered(userId, serverId) =>
            LET w == JoinThenLeaveServer(userId, channelId, serverId)
            IN  /\ userId \notin w.presServer[serverId]
                /\ userId \notin w.presChannel[channelId]
                /\ w.presUser[userId] = NoHash

\* a registered user that sits in one channel joins the other one and leaves
\* the server: all of its presence is gone
C30_Witness ==
    \E userId \in Users, channelId \in VoiceChannels, other \in VoiceChannels :
        /\ Registered(userId, "s1") /\ other # channelId
        /\ presUser[userId].channelId = other /\ userId \in presChannel[other]
        /\ LET w == JoinThenLeaveServer(userId, channelId, "s1")
           IN  /\ userId \notin w.presServer["s1"]
               /\ \A c \in VoiceChannels : userId \notin w.presChannel[c]
               /\ w.presUser[userId] = NoHash

\* the handlers of the events socket `s` sent that began and did not finish
Handling(s) == {i \in InFlight(s) : tasks[s][i].evt # "disconnect"}

\* C23: the events of one session are handled in arrival order without
\* overlap: the handler of a later event does not begin before the handler of
\* the earlier event of that session finished and acknowledged.
C23_OneHandlerPerSession ==
    \A s \in Sockets : Cardinality(Handling(s)) <= 1

\* no handler that works on the presence of `userId` is waiting
Settled(userId) ==
    \A s \in Sockets : \A i \in InFlight(s) : tasks[s][i].userId # userId

\* the channels whose presence set holds `userId`
PresentIn(userId) == {c \in VoiceChannels : userId \in presChannel[c]}

\* C22: joinChannel(u, c) is atomic with respect to the other presence
\* operations on u: however two joinChannel calls for u with different
\* channels, or a joinChannel and a leaveChannel or leaveServer, interleave,
\* once they are over u is in at most one channel presence set, and that set
\* is the one the channelId field of the presence hash of u names.
C22_JoinChannelAtomic ==
    \A userId \in Users :
        Settled(userId) =>
            /\ Cardinality(PresentIn(userId)) <= 1
            /\ \A c \in PresentIn(userId) : presUser[userId].channelId = c

\* the disconnect handler of socket `s` finished, and so did every handler
\* of the socket that was waiting
Over(s) ==
    /\ InFlight(s) = {}
    /\ \E i \in DOMAIN tasks[s] : tasks[s][i].evt = "disconnect"

\* the disconnect of socket `s` came while a handler of the socket waited
CameWhileWaiting(s) ==
    \E i \in DOMAIN tasks[s] :
        tasks[s][i].evt = "disconnect" /\ tasks[s][i].overlapped

\* nothing of the session of socket `s` is left on the server
NothingLeft(s) ==
    LET userId == sdata[s].userId
    IN  /\ \A serverId \in ServerIds : userId \notin presServer[serverId]
        /\ PresentIn(userId) = {}
        /\ presUser[userId] = NoHash
        /\ rooms[s] = {}
        /\ \A c \in VoiceChannels : ~IsSess(getSession(World, c, userId))

\* C24: when a session disconnects while one of its handlers waits at an
\* await, the cleanup of the disconnect takes effect after that handler
\* completes: once both finished, no presence entry, room membership or
\* voice session of the session is left.
C24_CleanupAfterHandlers ==
    \A s \in Sockets :
        (Joined(s) /\ Over(s) /\ CameWhileWaiting(s)) => NothingLeft(s)

\* the open producers PRODUCE created for the voice session (channelId, userId)
ProducersOf(w, channelId, userId) ==
    {p.id : p \in {x \in w.producers : x.chan = channelId /\ x.user = userId}}

\* the producer slot of the session holds every open producer of the session
SoleProducer(w) ==
    \A channelId \in VoiceChannels, userId \in Users :
        /\ Cardinality(ProducersOf(w, channelId, userId)) <= 1
        /\ \A id \in ProducersOf(w, channelId, userId) :
              getSession(w, channelId, userId).producer = id

\* C31: every voice session has at most one open producer, the one its
\* producer slot refers to, also after a second PRODUCE on the same send
\* transport.
C31_SoleProducer ==
    /\ SoleProducer(World)
    /\ \A s \in Sockets, transportId \in 1..MaxTransports :
          conn[s] => SoleProducer(ProduceRun(World, s, transportId, 0))

\* the consumers a run of a handler took out of the paused state
Resumed(w) ==
    {c \in consumers : c.paused /\ [c EXCEPT !.paused = FALSE] \in w.consumers}

\* the consumers a run of a handler created
Created(w) == {c \in w.consumers : \A d \in consumers : d.id # c.id}

\* C32: a consumer is paused from its creation by CONSUME until a
\* RESUME_CONSUMER naming its id comes from the session that owns it, while
\* that session is in the channel of the consumer; CONSUME acknowledges
\* success=false and creates no consumer when the session has no receive
\* transport or the router cannot consume the producer; RESUME_CONSUMER with
\* an id that is not in the consumer map of the caller acknowledges
\* success=false and resumes nothing.
C32_ConsumerPausedUntilResumed ==
    \A s \in Sockets :
        conn[s] =>
            /\ \A producerId \in 1..MaxProducers, fail \in 0..1 :
                  LET w == ConsumeRun(World, s, producerId, fail)
                      channelId == sdata[s].currentChannelId
                      session == getSession(World, channelId, sdata[s].userId)
                  IN  /\ \A c \in Created(w) : c.paused
                      /\ Resumed(w) = {}
                      /\ (\/ ~IsSess(session) \/ session.recvTransport = 0
                          \/ ~canConsume(World, channelId, producerId))
                            => AckedFalse(w.run) /\ Created(w) = {}
            /\ \A consumerId \in 1..MaxConsumers, fail \in 0..1 :
                  LET w == ResumeConsumerRun(World, s, consumerId, fail)
                      channelId == sdata[s].currentChannelId
                      session == getSession(World, channelId, sdata[s].userId)
                  IN  /\ \A c \in Resumed(w) :
                            c.id = consumerId /\ c.sock = s /\ c.chan = channelId
                      /\ (~IsSess(session) \/ consumerId \notin session.consumers)
                            => AckedFalse(w.run) /\ Resumed(w) = {}

\* what the voice events socket `s` can send do, whatever their payload
VoiceEventsOf(s) ==
    {CreateWebRtcTransportRun(World, s, c, d, 0) :
        c \in VoiceChannels, d \in {"send", "recv"}}
    \cup {ConnectTransportRun(World, s, id, 0) : id \in 1..MaxTransports}
    \cup {ProduceRun(World, s, id, 0) : id \in 1..MaxTransports}
    \cup {ConsumeRun(World, s, id, 0) : id \in 1..MaxProducers}
    \cup {ResumeConsumerRun(World, s, id, 0) : id \in 1..MaxConsumers}
    \cup {CloseProducerRun(World, s, id) : id \in 1..MaxProducers}
    \cup {LeaveChannelRun(World, s, c, 0) : c \in VoiceChannels}

\* the transports the voice sessions of `userId` hold
TransportsOf(w, userId) ==
    {t \in w.transports :
        \E c \in VoiceChannels :
            /\ IsSess(getSession(w, c, userId))
            /\ t.id \in {getSession(w, c, userId).sendTransport,
                         getSession(w, c, userId).recvTransport}}

\* the consumers of `userId` that the run took away
Removed(w, userId) == {c \in consumers : c.user = userId /\ c \notin w.consumers}

\* the run `w` of an event of user `u` left the voice sessions of `v` as they
\* were, but for the consumers of `v` on a producer of `u` that it closed
Untouched(w, u, v) ==
    /\ \A c \in VoiceChannels :
          LET before == getSession(World, c, v)
              after == getSession(w, c, v)
          IN  /\ after.sendTransport = before.sendTransport
              /\ after.recvTransport = before.recvTransport
              /\ after.producer = before.producer
              /\ after.consumers =
                    before.consumers \ {x.id : x \in {y \in Removed(w, v) : y.chan = c}}
    /\ TransportsOf(w, v) = TransportsOf(World, v)
    /\ {p \in w.producers : p.user = v} = {p \in producers : p.user = v}
    /\ {x \in w.consumers : x.user = v} = {x \in consumers : x.user = v} \ Removed(w, v)
    /\ \A x \in Removed(w, v) :
          /\ \E p \in producers : p.id = x.producerId /\ p.user = u
          /\ \A p \in w.producers : p.id # x.producerId

\* handlers that run without a break leave the sessions of other users alone
VoiceEventsKeepOthers ==
    \A s \in Sockets, v \in Users :
        (conn[s] /\ Joined(s) /\ sdata[s].userId # v) =>
            \A w \in VoiceEventsOf(s) : Untouched(w, sdata[s].userId, v)

\* the voice session (channelId, userId) of the coordinator
SessionNow(channelId, userId) ==
    IF channelId \in sessMaps THEN vsess[channelId][userId] ELSE NoSess

\* C33: for two sessions with different user ids u and v, no voice event and
\* no USER_LEAVE_CHANNEL of the session of u creates, connects, replaces or
\* closes a transport or a producer of the voice session of v, or resumes a
\* consumer of v; all it does to the session of v is to take away the
\* consumers v has on a producer of u that closes. Every step of a
\* CREATE_WEBRTC_TRANSPORT of the session of u leaves the transports and the
\* producer of the session of v as they were.
C33_NoCrossSessionMutation ==
    [][\A s \in Sockets, v \in Users, c \in VoiceChannels :
          (Joined(s) /\ sdata[s].userId # v /\ tasks'[s] # tasks[s]
             /\ \A i \in DOMAIN tasks[s] :
                   tasks[s][i].evt = "CREATE_WEBRTC_TRANSPORT") =>
              /\ SessionNow(c, v)'.sendTransport = SessionNow(c, v).sendTransport
              /\ SessionNow(c, v)'.recvTransport = SessionNow(c, v).recvTransport
              /\ SessionNow(c, v)'.producer = SessionNow(c, v).producer]_vars

\* the calls of getOrCreateRouter that wait for worker.createRouter
CreatingRouter ==
    {<<s, i>> \in Sockets \X (1..(MaxInFlight + 1)) :
        i \in DOMAIN tasks[s] /\ tasks[s][i].pc = "createRouter"}

\* C35: concurrent first voice events for a channel create one router:
\* however the calls of getOrCreateRouter for a channel interleave, no
\* router is installed for a channel that has one, and installing a router
\* does not replace the voice-session map of the channel once a session is
\* stored in it.
C35_OneRouterPerChannel ==
    \A x \in CreatingRouter :
        LET channelId == tasks[x[1]][x[2]].channelId
            w == RouterCreated(World, channelId)
        IN  /\ channelId \notin routers
            /\ \A u \in Users :
                  IsSess(getSession(World, channelId, u)) =>
                      getSession(w, channelId, u) = getSession(World, channelId, u)


\* the channel rooms a socket is subscribed to
ChannelRoomsOf(s) == {r \in rooms[s] : r[1] = "channel"}

\* C34: a session is subscribed to at most one channel room, and to the room
\* of channel c exactly when its currentChannelId is c, also after
\* USER_JOIN_CHANNEL switched channels and after a USER_LEAVE_CHANNEL whose
\* payload names another channel than the current one.
C34_RoomIsCurrentChannel ==
    \A s \in Sockets :
        conn[s] =>
            ChannelRoomsOf(s) =
                IF sdata[s].currentChannelId = None THEN {}
                ELSE {ChannelRoom(sdata[s].currentChannelId)}


\* the connected sessions of a user that are in a channel
SessionsIn(channelId, userId) ==
    {s \in Sockets : /\ conn[s]
                     /\ sdata[s].userId = userId
                     /\ sdata[s].currentChannelId = channelId}

\* C36: when no handler is running, a voice session (c, u) exists in the
\* coordinator only if some connected session of user u has
\* currentChannelId = c: none is left behind by a switch of channel, by a
\* CREATE_WEBRTC_TRANSPORT that names another channel, or by a disconnect.
C36_VoiceSessionHasOwner ==
    \A c \in VoiceChannels, u \in Users :
        IsSess(SessionNow(c, u)) => SessionsIn(c, u) # {}


\* a user id in a channel presence set with no connected session at all
GhostOccupant(channelId, userId) ==
    /\ userId \in presChannel[channelId]
    /\ \A s \in Sockets : ~(conn[s] /\ sdata[s].userId = userId)

\* after the disconnect of a user's only session the user is in no channel
NoGhostOccupant ==
    \A c \in VoiceChannels, u \in Users : ~GhostOccupant(c, u)

\* C37: when no handler is running, every user id in the presence set of a
\* channel c belongs to a connected session whose currentChannelId is c, so
\* that a user whose only session disconnected is in no presence set,
\* whatever USER_JOIN_CHANNEL and USER_LEAVE_CHANNEL events came before.
C37_OccupantIsInChannel ==
    \A c \in VoiceChannels, u \in Users :
        u \in presChannel[c] => SessionsIn(c, u) # {}


\* the session of socket s is not joined in world w
NotJoinedIn(w, s, instanceId, serverId) ==
    /\ w.sdata[s].userId = None /\ w.sdata[s].serverId = None
    /\ ServerRoom(serverId) \notin w.rooms[s]
    /\ w.presServer = presServer /\ w.presUser = presUser
    /\ Refused(CreateChannelRun(w, s, serverId, "a", None, 0), s)

\* C38: a USER_JOIN_SERVER that fails, acknowledged with success = false
\* because a store call raised, leaves the session not joined: userId and
\* serverId unset, no server room, no presence entry, and a later
\* permission-gated event of the session refused as NOT_AUTHENTICATED.
C38_FailedJoinLeavesUnjoined ==
    \A s \in Sockets, instanceId \in Users, serverId \in ServerIds, fail \in 1..5 :
        (conn[s] /\ ~Joined(s) /\ (fail = 3 => instanceId = AdminInstanceId)) =>
            LET w == JoinServerRun(World, s, instanceId, serverId, fail)
            IN  AckedFalse(w.run) => NotJoinedIn(w, s, instanceId, serverId)


\* role r is the only role of user u that grants flag f, by the flag or by
\* ADMIN: without it the mask of u does not pass the check
OnlyGrant(u, r, f, serverId) ==
    /\ <<u, r>> \in userRoles
    /\ RoleServer(r) = serverId
    /\ hasPermission(RolePermissions(r), f)
    /\ ~hasPermission(Combined({x \in Roles \ {r} : <<u, x>> \in userRoles},
                               serverId), f)

\* the events of socket t that requirePermission gates with flag f
GatedRuns(w, t, f) ==
    IF f = SEND_MESSAGES
    THEN {SendMessageRun(w, t, channelId, "hi", 0) : channelId \in ChannelIds}
    ELSE {GetRolesRun(w, t, serverId, 0) : serverId \in ServerIds}
         \cup {GetAllUsersRun(w, t, serverId, 0) : serverId \in ServerIds}
         \cup {AssignRoleRun(w, t, userId, roleId, "add", 0) :
                  userId \in Users, roleId \in Roles}

\* the event was refused for want of the flag and wrote nothing
DeniedAfter(g, w, t) ==
    /\ g.run.perm = "PERMISSION_DENIED"
    /\ Errors(g.run, t, "PERMISSION_DENIED") = 1
    /\ ~Succeeded(g.run)
    /\ g.msgRows = w.msgRows /\ g.userRoles = w.userRoles

RoleChange(a, t, r, action) ==
    AssignRoleRun(World, a, sdata[t].userId, r, action, 0)

Orphan(c, u) ==
    /\ \E p \in producers : p.chan = c /\ p.user = u
    /\ SessionsIn(c, u) = {}

\* C40: every producer announced is eventually retracted: once the user of
\* a producer P of channel c stops being in c, by CLOSE_PRODUCER,
\* USER_LEAVE_CHANNEL, USER_JOIN_CHANNEL to another channel or disconnect,
\* P is closed on the server (and PRODUCER_CLOSED goes to the sessions still
\* in c). A producer whose user is no longer in its channel does not stay
\* open for ever.
C40_ProducerRetracted ==
    \A c \in VoiceChannels, u \in Users :
        Orphan(c, u) ~> (\A p \in producers : ~(p.chan = c /\ p.user = u))

=============================================================================
